---- MODULE Spec2Model ----
(***************************************************************************)
(* A model of FinancialCalculations (finance_utils.py): the financial      *)
(* formula and root-finding engine of the investment finance calculator,   *)
(* and of the ScientificCalculator (scientific_calc.py) beside it.         *)
(*                                                                         *)
(* Numbers.  Python's float is a finite-precision, finite-range number     *)
(* type.  It is modelled here as decimal fixed point: a finite number is   *)
(* an integer count of units of 1/Scale, of magnitude at most MaxFloat     *)
(* units, and every operation rounds its exact result to the nearest unit. *)
(* What an operation does outside the finite numbers follows Python:       *)
(*   - +, -, * and / overflow silently to an infinity, inf - inf and       *)
(*     0 * inf give NaN, every comparison with NaN is false;               *)
(*   - x / 0 raises ZeroDivisionError, as does 0.0 ** negative;            *)
(*   - float ** int raises OverflowError when a finite base gives an       *)
(*     infinite result, and underflows silently to 0.                      *)
(* A raised exception is a value of its own that every later operation of  *)
(* the same expression passes on unchanged (left operand first), which is  *)
(* the order in which Python evaluates and unwinds.                        *)
(***************************************************************************)
EXTENDS Integers, Sequences, FiniteSets, TLC

\* ---------------------------------------------------------------- float

\* Decimal digits after the point, the unit 1/Scale, the largest finite magnitude.
ScaleDigits == 4
Scale == 10 ^ ScaleDigits
MaxFloat == 200000000

PosInf == MaxFloat + 1
NegInf == -PosInf
NaN == MaxFloat + 2
ZeroDivisionError == MaxFloat + 3
OverflowError == MaxFloat + 4
ValueError == MaxFloat + 6

IsErr(x) == x = ZeroDivisionError \/ x = OverflowError \/ x = ValueError
IsNaN(x) == x = NaN
IsInf(x) == x = PosInf \/ x = NegInf
IsFinite(x) == -MaxFloat <= x /\ x <= MaxFloat
\* A float value a call can return: finite, infinite or NaN, not an exception.
IsFloat(x) == IsFinite(x) \/ IsInf(x) \/ IsNaN(x)

One == Scale
FromInt(i) == i * Scale

\* The decimal literal m * 10^-e as a float, rounded to the nearest unit.
Lit(m, e) ==
    IF e <= ScaleDigits THEN m * 10 ^ (ScaleDigits - e)
    ELSE LET d == 10 ^ (e - ScaleDigits)
             q == (IF m < 0 THEN -m ELSE m)
             r == (2 * q + d) \div (2 * d)
         IN  IF m < 0 THEN -r ELSE r

\* The least number of units that is >= the positive decimal literal m * 10^-e:
\* a finite x >= 0 is below the literal exactly when x < UnitsBelow(m, e).
UnitsBelow(m, e) ==
    IF e <= ScaleDigits THEN m * 10 ^ (ScaleDigits - e)
    ELSE LET d == 10 ^ (e - ScaleDigits) IN (m + d - 1) \div d

Mag(x) == IF x < 0 THEN -x ELSE x
Sgn(x) == IF x < 0 THEN -1 ELSE 1

\* Round an exact result to the float range.
Norm(v) == IF v > MaxFloat THEN PosInf ELSE IF v < -MaxFloat THEN NegInf ELSE v

FNeg(x) == IF IsErr(x) \/ IsNaN(x) THEN x ELSE -x

FAbs(x) == IF IsErr(x) \/ IsNaN(x) THEN x ELSE Mag(x)

FAdd(a, b) ==
    IF IsErr(a) THEN a
    ELSE IF IsErr(b) THEN b
    ELSE IF IsNaN(a) \/ IsNaN(b) THEN NaN
    ELSE IF IsInf(a) THEN (IF IsInf(b) /\ b # a THEN NaN ELSE a)
    ELSE IF IsInf(b) THEN b
    ELSE Norm(a + b)

FSub(a, b) == FAdd(a, FNeg(b))

\* |a| * |b| / Scale for finite magnitudes, by halves so that no intermediate
\* product leaves the 32-bit integers.
MulMag(a, b) ==
    LET a1 == a \div Scale
        a0 == a % Scale
        b1 == b \div Scale
        b0 == b % Scale
    IN  IF a1 * b1 > MaxFloat \div Scale THEN PosInf
        ELSE Norm(a1 * b1 * Scale + a1 * b0 + a0 * b1
                  + (a0 * b0 + Scale \div 2) \div Scale)

FMul(a, b) ==
    IF IsErr(a) THEN a
    ELSE IF IsErr(b) THEN b
    ELSE IF IsNaN(a) \/ IsNaN(b) THEN NaN
    ELSE IF IsInf(a) \/ IsInf(b)
         THEN (IF a = 0 \/ b = 0 THEN NaN ELSE Sgn(a) * Sgn(b) * PosInf)
    ELSE Sgn(a) * Sgn(b) * MulMag(Mag(a), Mag(b))

\* Long division: q is the quotient so far, r the remainder, k the digits left.
RECURSIVE DivDigits(_, _, _, _)
DivDigits(q, r, b, k) ==
    IF q > MaxFloat THEN PosInf
    ELSE IF k = 0 THEN Norm(q + (IF 2 * r >= b THEN 1 ELSE 0))
    ELSE DivDigits(q * 10 + (r * 10) \div b, (r * 10) % b, b, k - 1)

DivMag(a, b) == DivDigits(a \div b, a % b, b, ScaleDigits)

FDiv(a, b) ==
    IF IsErr(a) THEN a
    ELSE IF IsErr(b) THEN b
    ELSE IF b = 0 THEN ZeroDivisionError
    ELSE IF IsNaN(a) \/ IsNaN(b) THEN NaN
    ELSE IF IsInf(a) THEN (IF IsInf(b) THEN NaN ELSE Sgn(a) * Sgn(b) * PosInf)
    ELSE IF IsInf(b) THEN 0
    ELSE Sgn(a) * Sgn(b) * DivMag(Mag(a), Mag(b))

\* x multiplied n >= 1 times.
RECURSIVE PowRaw(_, _)
PowRaw(x, n) == IF n = 1 THEN x ELSE FMul(PowRaw(x, n - 1), x)

\* OverflowError when the finite base x gave the infinite power p.
PowResult(x, p) == IF IsFinite(x) /\ IsInf(p) THEN OverflowError ELSE p

PowChecked(x, n) == PowResult(x, PowRaw(x, n))

\* float ** int
FPow(x, n) ==
    IF IsErr(x) THEN x
    ELSE IF n = 0 THEN One
    ELSE IF IsNaN(x) THEN NaN
    ELSE IF n > 0 THEN PowChecked(x, n)
    ELSE IF x = 0 THEN ZeroDivisionError
    ELSE IF IsInf(x) THEN 0
    ELSE PowChecked(FDiv(One, x), -n)

\* Comparisons of floats: false whenever a NaN is compared.
FLt(a, b) == ~IsNaN(a) /\ ~IsNaN(b) /\ a < b
FGe(a, b) == ~IsNaN(a) /\ ~IsNaN(b) /\ a >= b
FGt(a, b) == ~IsNaN(a) /\ ~IsNaN(b) /\ a > b
FEq(a, b) == ~IsNaN(a) /\ ~IsNaN(b) /\ a = b

\* abs(x) < m * 10^-e, the literal taken exactly.
AbsBelow(x, m, e) == ~IsNaN(x) /\ FAbs(x) < UnitsBelow(m, e)

\* ------------------------------------------------------------ results

\* The number 0 in place of None.
ZeroForNone == [kind |-> "float", v |-> 0]
None == [kind |-> "None", v |-> 0]
Float(x) == [kind |-> "float", v |-> x]

\* ---------------------------------------------------------------- npv

\* sum(cf / (1 + rate) ** i for i, cf in enumerate(cashflows)), the first k terms.
RECURSIVE NpvSum(_, _, _)
NpvSum(rate, cashflows, k) ==
    IF k = 0 THEN 0
    ELSE FAdd(NpvSum(rate, cashflows, k - 1),
              FDiv(cashflows[k], FPow(FAdd(One, rate), k - 1)))

\* Every cash flow discounted one period more, the first included.
NpvFromPeriodOne(rate, cashflows) == NpvSum(rate, <<0>> \o cashflows, Len(cashflows) + 1)
npv(rate, cashflows) == NpvSum(rate, cashflows, Len(cashflows))

\* sum(-i * cf / (1 + rate) ** (i + 1) for i, cf in enumerate(cashflows))
RECURSIVE NpvDerivativeSum(_, _, _)
NpvDerivativeSum(rate, cashflows, k) ==
    IF k = 0 THEN 0
    ELSE FAdd(NpvDerivativeSum(rate, cashflows, k - 1),
              FDiv(FMul(FromInt(-(k - 1)), cashflows[k]),
                   FPow(FAdd(One, rate), k)))

npv_derivative(rate, cashflows) ==
    NpvDerivativeSum(rate, cashflows, Len(cashflows))

\* sum(xs), left to right from 0.
RECURSIVE SumTo(_, _)
SumTo(xs, k) == IF k = 0 THEN 0 ELSE FAdd(SumTo(xs, k - 1), xs[k])

FSum(xs) == SumTo(xs, Len(xs))

\* The first exception among the values of a run of statements, 0 if none.
RECURSIVE FirstErrFrom(_, _)
FirstErrFrom(xs, k) ==
    IF k > Len(xs) THEN 0
    ELSE IF IsErr(xs[k]) THEN xs[k]
    ELSE FirstErrFrom(xs, k + 1)

FirstErr(xs) == FirstErrFrom(xs, 1)

\* ------------------------------------------------------ dcf_valuation

\* A definition below takes the values of the statements before it as
\* parameters, in the order the function computes them.

IndexError == MaxFloat + 5

\* The cash flows discounted from period 0, as npv does: ** i for ** (i + 1).
PvCashflowsFromZero(free_cashflows, discount_rate) ==
    [k \in 1..Len(free_cashflows) |->
        FDiv(free_cashflows[k], FPow(FAdd(One, discount_rate), k - 1))]
\* [cf / (1 + discount_rate) ** (i + 1) for i, cf in enumerate(free_cashflows)]
PvCashflows(free_cashflows, discount_rate) ==
    [k \in 1..Len(free_cashflows) |->
        FDiv(free_cashflows[k], FPow(FAdd(One, discount_rate), k))]

\* free_cashflows[-1] * (1 + terminal_growth_rate) / (discount_rate - terminal_growth_rate)
TerminalValue(free_cashflows, terminal_growth_rate, discount_rate) ==
    IF Len(free_cashflows) = 0 THEN IndexError
    ELSE FDiv(FMul(free_cashflows[Len(free_cashflows)], FAdd(One, terminal_growth_rate)),
              FSub(discount_rate, terminal_growth_rate))

\* terminal_value / (1 + discount_rate) ** terminal_year
PvTerminalValue(terminal_value, discount_rate, terminal_year) ==
    FDiv(terminal_value, FPow(FAdd(One, discount_rate), terminal_year))

\* The terminal value left out of the sum.
EnterpriseValueNoTerminal(pv_cashflows, pv_terminal_value) == FSum(pv_cashflows)
\* sum(pv_cashflows) + pv_terminal_value
EnterpriseValue(pv_cashflows, pv_terminal_value) ==
    FAdd(FSum(pv_cashflows), pv_terminal_value)

\* The exception a call of dcf_valuation ends with instead of returning.
DcfRaised(exc) ==
    [exc |-> exc, pv_cashflows |-> 0, terminal_value |-> 0,
     pv_terminal_value |-> 0, enterprise_value |-> 0, cashflow_breakdown |-> <<>>]

\* The dictionary returned.
DcfDict(pv_cashflows, terminal_value, pv_terminal_value) ==
    IF IsErr(pv_terminal_value) THEN DcfRaised(pv_terminal_value)
    ELSE [exc |-> 0,
          pv_cashflows |-> FSum(pv_cashflows),
          terminal_value |-> terminal_value,
          pv_terminal_value |-> pv_terminal_value,
          enterprise_value |-> EnterpriseValue(pv_cashflows, pv_terminal_value),
          cashflow_breakdown |-> pv_cashflows]

DcfFromTerminal(pv_cashflows, terminal_value, discount_rate, terminal_year) ==
    IF terminal_value = IndexError \/ IsErr(terminal_value)
    THEN DcfRaised(terminal_value)
    ELSE DcfDict(pv_cashflows, terminal_value,
                 PvTerminalValue(terminal_value, discount_rate, terminal_year))

DcfFromPv(pv_cashflows, free_cashflows, terminal_growth_rate, discount_rate, terminal_year) ==
    IF FirstErr(pv_cashflows) # 0 THEN DcfRaised(FirstErr(pv_cashflows))
    ELSE DcfFromTerminal(pv_cashflows,
                         TerminalValue(free_cashflows, terminal_growth_rate,
                                       discount_rate),
                         discount_rate, terminal_year)

\* dcf_valuation: the dictionary returned, with exc the exception raised
\* instead (0 for none).  terminal_year is NoYear for Python's None.
NoYear == -1
dcf_valuation(free_cashflows, terminal_growth_rate, discount_rate, terminal_year) ==
    DcfFromPv(PvCashflows(free_cashflows, discount_rate), free_cashflows,
              terminal_growth_rate, discount_rate,
              IF terminal_year = NoYear THEN Len(free_cashflows) ELSE terminal_year)

\* --------------------------------------------------------- bond_price

\* The annuity formula at every yield, the zero yield included.
PvCouponsAnnuityOnly(coupon_payment, period_yield, periods) ==
    FDiv(FMul(coupon_payment, FSub(One, FPow(FAdd(One, period_yield), -periods))),
         period_yield)
\* pv_coupons: the annuity formula, or coupon_payment * periods at a zero yield.
PvCoupons(coupon_payment, period_yield, periods) ==
    IF FEq(period_yield, 0)
    THEN FMul(coupon_payment, FromInt(periods))
    ELSE FDiv(FMul(coupon_payment,
                   FSub(One, FPow(FAdd(One, period_yield), -periods))),
              period_yield)

\* The face value discounted over one period too few.
PvFaceValueShort(face_value, period_yield, periods) ==
    FDiv(face_value, FPow(FAdd(One, period_yield), periods - 1))
\* pv_face_value = face_value / (1 + period_yield) ** periods
PvFaceValue(face_value, period_yield, periods) ==
    FDiv(face_value, FPow(FAdd(One, period_yield), periods))

\* The face value left out of the final payment.
CashFlowAtCouponOnly(face_value, coupon_payment, periods, t) == coupon_payment
\* The cash flow of payment t: the final payment includes the face value.
CashFlowAt(face_value, coupon_payment, periods, t) ==
    IF t = periods THEN FAdd(coupon_payment, face_value) ELSE coupon_payment

\* The duration loop: weighted_time after the payments 1..t.
RECURSIVE WeightedTime(_, _, _, _, _, _)
WeightedTime(face_value, coupon_payment, period_yield, periods, payments_per_year, t) ==
    IF t <= 0 THEN 0
    ELSE FAdd(WeightedTime(face_value, coupon_payment, period_yield, periods,
                           payments_per_year, t - 1),
              FMul(FDiv(FromInt(t), FromInt(payments_per_year)),
                   FDiv(CashFlowAt(face_value, coupon_payment, periods, t),
                        FPow(FAdd(One, period_yield), t))))

\* The exception a call of bond_price ends with instead of returning.
BondRaised(exc) ==
    [exc |-> exc, bond_price |-> 0, pv_coupons |-> 0, pv_face_value |-> 0,
     current_yield |-> 0, duration |-> 0, coupon_payment |-> 0]

\* The dictionary returned, or the first exception of the statements.
BondDict(coupon_payment, period_yield, payments_per_year, pv_coupons, pv_face_value, price, current_yield, weighted_time, duration) ==
    IF FirstErr(<<coupon_payment, period_yield, pv_coupons, pv_face_value, price,
                  current_yield, weighted_time, duration>>) # 0
    THEN BondRaised(FirstErr(<<coupon_payment, period_yield, pv_coupons,
                               pv_face_value, price, current_yield, weighted_time,
                               duration>>))
    ELSE [exc |-> 0,
          bond_price |-> price,
          pv_coupons |-> pv_coupons,
          pv_face_value |-> pv_face_value,
          current_yield |-> current_yield,
          duration |-> duration,
          coupon_payment |-> FMul(coupon_payment, FromInt(payments_per_year))]

\* current_yield, the duration loop and duration = weighted_time / bond_price
BondFromWeighted(coupon_payment, period_yield, payments_per_year, pv_coupons, pv_face_value, price, weighted_time) ==
    BondDict(coupon_payment, period_yield, payments_per_year, pv_coupons,
             pv_face_value, price,
             FDiv(FMul(coupon_payment, FromInt(payments_per_year)), price),
             weighted_time, FDiv(weighted_time, price))

\* The coupons left out of the price.
BondPriceFaceOnly(pv_coupons, pv_face_value) == pv_face_value
\* bond_price = pv_coupons + pv_face_value
BondPriceSum(pv_coupons, pv_face_value) == FAdd(pv_coupons, pv_face_value)

BondFromPv(face_value, coupon_payment, period_yield, periods, payments_per_year, pv_coupons, pv_face_value) ==
    BondFromWeighted(coupon_payment, period_yield, payments_per_year, pv_coupons,
                     pv_face_value, BondPriceSum(pv_coupons, pv_face_value),
                     WeightedTime(face_value, coupon_payment, period_yield, periods,
                                  payments_per_year, periods))

BondFromPeriod(face_value, coupon_payment, period_yield, periods, payments_per_year) ==
    BondFromPv(face_value, coupon_payment, period_yield, periods, payments_per_year,
               PvCoupons(coupon_payment, period_yield, periods),
               PvFaceValue(face_value, period_yield, periods))

\* bond_price: the dictionary returned, with exc the exception raised instead.
bond_price(face_value, coupon_rate, yield_rate, years_to_maturity, payments_per_year) ==
    BondFromPeriod(face_value,
                   FDiv(FMul(face_value, coupon_rate), FromInt(payments_per_year)),
                   FDiv(yield_rate, FromInt(payments_per_year)),
                   years_to_maturity * payments_per_year,
                   payments_per_year)

\* result['bond_price'] - bond_price
PriceLessTarget(b, target) ==
    IF b.exc # 0 THEN b.exc ELSE FSub(b.bond_price, target)

\* bond_price_function(ytm) of yield_to_maturity: the price at ytm less the target.
bond_price_function(a, y) ==
    PriceLessTarget(bond_price(a.face_value, a.coupon_rate, y, a.years_to_maturity,
                               a.payments_per_year),
                    a.bond_price)

\* bond_price_derivative(ytm): the central difference with h = 0.0001.
HExp == 4
bond_price_derivative(a, y) ==
    FDiv(FSub(bond_price_function(a, FAdd(y, Lit(1, HExp))),
              bond_price_function(a, FSub(y, Lit(1, HExp)))),
         FMul(FromInt(2), Lit(1, HExp)))

\* ------------------------------------------- wacc, capm, pv, fv, cagr

\* equity_weight * cost_of_equity + debt_weight * cost_of_debt * (1 - tax_rate)
WaccFromWeights(cost_of_equity, cost_of_debt, tax_rate, equity_weight, debt_weight) ==
    FAdd(FMul(equity_weight, cost_of_equity),
         FMul(FMul(debt_weight, cost_of_debt), FSub(One, tax_rate)))

\* equity_weight and debt_weight: the market values over total_value
WaccFromTotal(cost_of_equity, cost_of_debt, tax_rate, market_value_equity, market_value_debt, total_value) ==
    WaccFromWeights(cost_of_equity, cost_of_debt, tax_rate,
                    FDiv(market_value_equity, total_value),
                    FDiv(market_value_debt, total_value))

\* The debt left out of total_value.
WaccOverEquity(cost_of_equity, cost_of_debt, tax_rate, market_value_equity, market_value_debt) ==
    WaccFromTotal(cost_of_equity, cost_of_debt, tax_rate, market_value_equity,
                  market_value_debt, market_value_equity)
\* wacc: total_value = market_value_equity + market_value_debt
wacc(cost_of_equity, cost_of_debt, tax_rate, market_value_equity, market_value_debt) ==
    WaccFromTotal(cost_of_equity, cost_of_debt, tax_rate, market_value_equity,
                  market_value_debt, FAdd(market_value_equity, market_value_debt))

\* risk_free_rate + beta * (market_return - risk_free_rate)
capm(risk_free_rate, beta, market_return) ==
    FAdd(risk_free_rate, FMul(beta, FSub(market_return, risk_free_rate)))

\* future_value / (1 + rate) ** periods
present_value(fv, rate, periods) ==
    FDiv(fv, FPow(FAdd(One, rate), periods))

\* present_value * (1 + rate) ** periods
future_value(pv, rate, periods) ==
    FMul(pv, FPow(FAdd(One, rate), periods))

\* The n-th root of a finite q >= 0, n >= 1: the largest r between lo and hi
\* whose n-th power is at most q, found by halving.
RECURSIVE RootBetween(_, _, _, _)
RootBetween(lo, hi, q, n) ==
    IF hi - lo <= 1
    THEN (IF PowChecked(hi, n) <= q THEN hi ELSE lo)
    ELSE IF PowChecked((lo + hi) \div 2, n) <= q
         THEN RootBetween((lo + hi) \div 2, hi, q, n)
         ELSE RootBetween(lo, (lo + hi) \div 2, q, n)

Root(q, n) == RootBetween(0, IF q > One THEN q ELSE One, q, n)

\* The value of a power: a float (or the exception raised), or a complex
\* number, of the given modulus and of argument pi / n.
RealPower(x) == [complex |-> FALSE, v |-> x, n |-> 0]
ComplexPower(modulus, n) == [complex |-> TRUE, v |-> modulus, n |-> n]

\* x ** (1 / n) of Python for a float x and an int n: 1 / n first, which raises
\* ZeroDivisionError at n = 0.  A negative x under the fractional exponent of
\* |n| >= 2 gives a complex number; 0.0 to a negative power raises
\* ZeroDivisionError.
PowInverse(x, n) ==
    IF IsErr(x) THEN RealPower(x)
    ELSE IF n = 0 THEN RealPower(ZeroDivisionError)
    ELSE IF IsNaN(x) THEN RealPower(NaN)
    ELSE IF n = 1 THEN RealPower(x)
    ELSE IF n = -1 THEN RealPower(FPow(x, -1))
    ELSE IF IsInf(x) THEN RealPower(IF n > 0 THEN PosInf ELSE 0)
    ELSE IF x = 0 THEN RealPower(IF n > 0 THEN 0 ELSE ZeroDivisionError)
    ELSE IF x > 0 THEN RealPower(IF n > 0 THEN Root(x, n) ELSE FDiv(One, Root(x, -n)))
    ELSE IF n > 0 THEN ComplexPower(Root(-x, n), n)
    ELSE ComplexPower(FDiv(One, Root(-x, -n)), n)

\* growth - 1, of a float or of a complex growth (kept as the growth it is
\* taken from).
LessOne(growth) ==
    IF growth.complex THEN growth ELSE RealPower(FSub(growth.v, One))

\* The growth over one period in place of the growth over all of them.
CagrOnePeriod(beginning_value, ending_value, periods) ==
    LessOne(PowInverse(FDiv(ending_value, beginning_value), 1))
\* (ending_value / beginning_value) ** (1 / periods) - 1
compound_annual_growth_rate(beginning_value, ending_value, periods) ==
    LessOne(PowInverse(FDiv(ending_value, beginning_value), periods))

\* ------------------------------------------- ScientificCalculator

\* int(x) of a finite float: the whole part, towards zero.
IntOf(x) == Sgn(x) * (Mag(x) \div Scale)
IsWhole(x) == IsFinite(x) /\ x = FromInt(IntOf(x))

\* math.factorial(k) of an int k >= 0.
RECURSIVE MathFactorial(_)
MathFactorial(k) == IF k <= 1 THEN 1 ELSE k * MathFactorial(k - 1)

\* The test on n alone: the fractional part is cut off, not refused.
FactorialOfWholePart(n) ==
    IF IsNaN(n) THEN ValueError
    ELSE IF n < 0 THEN ValueError
    ELSE IF IsInf(n) THEN OverflowError
    ELSE FromInt(MathFactorial(IntOf(n)))
\* factorial(n): int(nan) raises ValueError, and int(inf) OverflowError, inside
\* the test itself.
factorial(n) ==
    IF IsNaN(n) THEN ValueError
    ELSE IF n < 0 THEN ValueError
    ELSE IF IsInf(n) THEN OverflowError
    ELSE IF n # FromInt(IntOf(n)) THEN ValueError
    ELSE FromInt(MathFactorial(IntOf(n)))

\* math.sqrt(x)
MathSqrt(x) ==
    IF IsNaN(x) THEN NaN
    ELSE IF x < 0 THEN ValueError
    ELSE IF IsInf(x) THEN PosInf
    ELSE Root(x, 2)

square_root(x) == IF FLt(x, 0) THEN ValueError ELSE MathSqrt(x)

\* math.pow(x, 1 / n) for a whole n: the power of Python's ** where that is
\* real, and ValueError ("math domain error") where ** gives a complex
\* number or divides by zero.
MathPowInverse(x, n) ==
    IF n = 0 THEN ZeroDivisionError
    ELSE IF PowInverse(x, n).complex THEN ValueError
    ELSE IF PowInverse(x, n).v = ZeroDivisionError THEN ValueError
    ELSE PowInverse(x, n).v

nth_root(x, n) == IF n = 0 THEN ValueError ELSE MathPowInverse(x, IntOf(n))

\* math.log(x) and math.log10(x): ValueError at x <= 0, and the logarithm,
\* rounded to the unit, at each positive argument the calls are made with.
MathLog(x) ==
    IF IsNaN(x) THEN NaN
    ELSE IF x <= 0 THEN ValueError
    ELSE IF IsInf(x) THEN PosInf
    ELSE CASE x = Lit(1, 2) -> Lit(-46052, 4)
           [] x = Lit(1, 1) -> Lit(-23026, 4)
           [] x = Lit(5, 1) -> Lit(-6931, 4)
           [] x = One -> 0
           [] x = FromInt(2) -> Lit(6931, 4)
           [] x = FromInt(8) -> Lit(20794, 4)
           [] x = FromInt(10) -> Lit(23026, 4)
           [] x = FromInt(100) -> Lit(46052, 4)

MathLog10(x) ==
    IF IsNaN(x) THEN NaN
    ELSE IF x <= 0 THEN ValueError
    ELSE IF IsInf(x) THEN PosInf
    ELSE CASE x = Lit(1, 2) -> FromInt(-2)
           [] x = Lit(1, 1) -> FromInt(-1)
           [] x = Lit(5, 1) -> Lit(-3010, 4)
           [] x = One -> 0
           [] x = FromInt(2) -> Lit(3010, 4)
           [] x = FromInt(8) -> Lit(9031, 4)
           [] x = FromInt(10) -> FromInt(1)
           [] x = FromInt(100) -> FromInt(2)

\* math.log(x, base): log(x) / log(base), whose divisor is 0 at base 1.
MathLogBase(x, base) == FDiv(MathLog(x), MathLog(base))

log10(x) == IF FLt(x, 0) \/ FEq(x, 0) THEN ValueError ELSE MathLog10(x)
ln(x) == IF FLt(x, 0) \/ FEq(x, 0) THEN ValueError ELSE MathLog(x)
\* The test without its last part: base == 1 is let through.
LogAnyBase(x, base) ==
    IF FLt(x, 0) \/ FEq(x, 0) \/ FLt(base, 0) \/ FEq(base, 0)
    THEN ValueError
    ELSE MathLogBase(x, base)
log(x, base) ==
    IF FLt(x, 0) \/ FEq(x, 0) \/ FLt(base, 0) \/ FEq(base, 0) \/ FEq(base, One)
    THEN ValueError
    ELSE MathLogBase(x, base)

\* math.asin(x) and math.acos(x), in radians: ValueError outside [-1, 1], and
\* the angle, rounded to the unit, at each argument the calls are made with.
MathAsin(x) ==
    IF IsNaN(x) THEN NaN
    ELSE IF x < -One \/ x > One THEN ValueError
    ELSE CASE x = -One -> Lit(-15708, 4)
           [] x = Lit(-5, 1) -> Lit(-5236, 4)
           [] x = 0 -> 0
           [] x = Lit(5, 1) -> Lit(5236, 4)
           [] x = One -> Lit(15708, 4)

MathAcos(x) ==
    IF IsNaN(x) THEN NaN
    ELSE IF x < -One \/ x > One THEN ValueError
    ELSE CASE x = -One -> Lit(31416, 4)
           [] x = Lit(-5, 1) -> Lit(20944, 4)
           [] x = 0 -> Lit(15708, 4)
           [] x = Lit(5, 1) -> Lit(10472, 4)
           [] x = One -> 0

\* math.degrees(x): x * (180 / pi)
MathDegrees(x) == FMul(x, Lit(572958, 4))

\* result = math.asin(x); if self.angle_mode == 'deg': result = math.degrees(result)
InMode(mode, r) == IF mode = "deg" THEN MathDegrees(r) ELSE r

asin(mode, x) ==
    IF FLt(x, -One) \/ FGt(x, One) THEN ValueError ELSE InMode(mode, MathAsin(x))
acos(mode, x) ==
    IF FLt(x, -One) \/ FGt(x, One) THEN ValueError ELSE InMode(mode, MathAcos(x))

\* self.memory += value; self.memory -= value
\* (The subtraction done as an addition.)
MemorySubtractAdds(m, value) == FAdd(m, value)
memory_add(m, value) == FAdd(m, value)
memory_subtract(m, value) == FSub(m, value)

\* What a call ends with: its pc, result and raised.
Ended(v) == <<"returned", v, 0>>
Failed(e) == <<"raised", [kind |-> "None", v |-> 0], e>>
NotFound == Ended([kind |-> "None", v |-> 0])
Number(x) == IF IsErr(x) THEN Failed(x) ELSE Ended([kind |-> "float", v |-> x])

\* The interpolation counted from i instead of i - 1.
InterpolateFromI(n, c, cf) == FAdd(FromInt(n), FDiv(FAbs(FSub(c, cf)), cf))
\* prev_cumulative = cumulative - cf; i - 1 + abs(prev_cumulative) / cf
Interpolate(n, c, cf) == FAdd(FromInt(n - 1), FDiv(FAbs(FSub(c, cf)), cf))

\* payback_period as a function of its input alone: the scan at Python's
\* index k with the running sum c of the flows before it.
RECURSIVE PaybackAt(_, _, _)
PaybackAt(C, k, c) ==
    IF k > Len(C) - 1 THEN NotFound
    ELSE IF FGe(FAdd(c, C[k + 1]), 0)
         THEN (IF k = 1 THEN Number(FromInt(1))
               ELSE Number(Interpolate(k, FAdd(c, C[k + 1]), C[k + 1])))
         ELSE PaybackAt(C, k + 1, FAdd(c, C[k + 1]))

PaybackOf(C) ==
    IF Len(C) = 0 THEN NotFound
    ELSE IF FGe(C[1], 0) THEN NotFound
    ELSE PaybackAt(C, 1, C[1])

\* --------------------------------------------- FinanceCalculator

\* A message box shown.
Dialog(kind, title) == [kind |-> kind, title |-> title]
InputError == Dialog("showerror", "Input Error")
InputWarning == Dialog("showwarning", "Input Warning")
CalculationError == Dialog("showerror", "Calculation Error")
ConfirmInput == Dialog("askyesno", "Confirm Input")

\* An engine function called with its arguments.
Called(fn, a) == [fn |-> fn, args |-> a]

\* text.strip() and float(text) of the texts that are entered: float raises
\* ValueError for a text that is no number, and reads "nan" and "inf" as the
\* floats they name.
Strip(text) ==
    CASE text = " " -> ""
      [] text = " 10 " -> "10"
      [] OTHER -> text
FloatOfText(text) ==
    CASE text = "nan" -> NaN
      [] text = "inf" -> PosInf
      [] text = "-500" -> FromInt(-500)
      [] text = "-1000" -> FromInt(-1000)
      [] text = "-5" -> FromInt(-5)
      [] text = "-100" -> FromInt(-100)
      [] text = "-550" -> FromInt(-550)
      [] text = "1000" -> FromInt(1000)
      [] text = "0" -> 0
      [] text = "2.5" -> Lit(25, 1)
      [] text = "10" -> FromInt(10)
      [] text = "60" -> FromInt(60)
      [] text = "500" -> FromInt(500)
      [] text = "550" -> FromInt(550)
      [] text = "600" -> FromInt(600)
      [] text = "1100" -> FromInt(1100)
      [] OTHER -> ValueError

\* [float(x.strip()) for x in text.split(',') if x.strip()], of the items
\* between the commas: the floats, with exc the ValueError raised instead.
RECURSIVE FloatsOfItems(_, _)
FloatsOfItems(items, k) ==
    IF k = 0 THEN <<>>
    ELSE IF Strip(items[k]) = "" THEN FloatsOfItems(items, k - 1)
    ELSE Append(FloatsOfItems(items, k - 1), FloatOfText(Strip(items[k])))
ParsedList(floats) == [exc |-> FirstErr(floats), v |-> floats]
\* cashflows_text.strip() is empty: nothing but blanks was entered.
IsBlankEntry(items) == Len(items) = 1 /\ Strip(items[1]) = ""

\* sum(1 for cf in cashflows if cf < 0)
RECURSIVE NegativeCount(_, _)
NegativeCount(cashflows, k) ==
    IF k = 0 THEN 0
    ELSE NegativeCount(cashflows, k - 1) + (IF FLt(cashflows[k], 0) THEN 1 ELSE 0)

\* The history keeps the 100 newest entries.
HistoryLimit == 100
\* The cut left out.
AddWithoutLimit(history, entry) == <<entry>> \o history
\* self.calculation_history.insert(0, history_entry), then the cut to [:100]
add_to_history(history, entry) ==
    IF Len(history) + 1 > HistoryLimit
    THEN SubSeq(<<entry>> \o history, 1, HistoryLimit)
    ELSE <<entry>> \o history
\* history_entry
HistoryEntry(timestamp, type, inputs, results) ==
    [timestamp |-> timestamp, type |-> type, inputs |-> inputs, results |-> results,
     description |-> ""]

\* calculate_dcf, by its stages.  What the handler does: the dialogs it shows,
\* the engine call it makes, and whether it shows and saves a valuation d
\* whose terminal value is percentage per cent of the whole.
DcfRejected(ds) ==
    [dialogs |-> ds, calls |-> <<>>, shown |-> FALSE, d |-> DcfRaised(0), percentage |-> 0]
DcfFailed(ds, call) ==
    [dialogs |-> Append(ds, CalculationError), calls |-> <<call>>, shown |-> FALSE,
     d |-> DcfRaised(0), percentage |-> 0]
DcfShown(ds, call, d, percentage) ==
    [dialogs |-> Append(ds, Dialog("askquestion", "DCF Valuation Complete")),
     calls |-> <<call>>, shown |-> TRUE, d |-> d, percentage |-> percentage]

\* terminal_percentage = (pv_terminal_value / enterprise_value) * 100
DcfPercentage(ds, call, d) ==
    IF IsErr(FMul(FDiv(d.pv_terminal_value, d.enterprise_value), FromInt(100)))
    THEN DcfFailed(ds, call)
    ELSE DcfShown(ds, call, d,
                  FMul(FDiv(d.pv_terminal_value, d.enterprise_value), FromInt(100)))

\* dcf_result = FinancialCalculations.dcf_valuation(cashflows, terminal_growth, discount_rate)
DcfValued(ds, call, d) ==
    IF d.exc # 0 THEN DcfFailed(ds, call) ELSE DcfPercentage(ds, call, d)

DcfEngine(ds, cashflows, terminal_growth, discount_rate) ==
    DcfValued(ds,
              Called("dcf_valuation",
                     [free_cashflows |-> cashflows,
                      terminal_growth_rate |-> terminal_growth,
                      discount_rate |-> discount_rate]),
              dcf_valuation(cashflows, terminal_growth, discount_rate, NoYear))

\* The test of the discount rate without its comparison with the growth.
DcfDiscountPositiveOnly(ds, cashflows, terminal_growth, discount_rate) ==
    IF IsErr(discount_rate) THEN DcfRejected(Append(ds, InputError))
    ELSE IF FLt(discount_rate, 0) \/ FEq(discount_rate, 0)
    THEN DcfRejected(Append(ds, InputError))
    ELSE IF FGt(discount_rate, Lit(5, 1))
    THEN DcfEngine(Append(ds, InputWarning), cashflows, terminal_growth, discount_rate)
    ELSE DcfEngine(ds, cashflows, terminal_growth, discount_rate)
\* discount_rate = float(wacc_text) / 100 and its tests
DcfDiscount(ds, cashflows, terminal_growth, discount_rate) ==
    IF IsErr(discount_rate) THEN DcfRejected(Append(ds, InputError))
    ELSE IF FLt(discount_rate, 0) \/ FEq(discount_rate, 0)
    THEN DcfRejected(Append(ds, InputError))
    ELSE IF FLt(discount_rate, terminal_growth) \/ FEq(discount_rate, terminal_growth)
    THEN DcfRejected(Append(ds, InputError))
    ELSE IF FGt(discount_rate, Lit(5, 1))
    THEN DcfEngine(Append(ds, InputWarning), cashflows, terminal_growth, discount_rate)
    ELSE DcfEngine(ds, cashflows, terminal_growth, discount_rate)

DcfWacc(ds, cashflows, terminal_growth, wacc_text) ==
    IF wacc_text = "" THEN DcfRejected(Append(ds, InputError))
    ELSE DcfDiscount(ds, cashflows, terminal_growth,
                     FDiv(FloatOfText(wacc_text), FromInt(100)))

\* terminal_growth = float(terminal_text) / 100 and its warnings
DcfGrowth(ds, cashflows, terminal_growth, wacc_text) ==
    IF IsErr(terminal_growth) THEN DcfRejected(Append(ds, InputError))
    ELSE IF FLt(terminal_growth, 0) \/ FGt(terminal_growth, Lit(6, 2))
    THEN DcfWacc(Append(ds, InputWarning), cashflows, terminal_growth, wacc_text)
    ELSE DcfWacc(ds, cashflows, terminal_growth, wacc_text)

DcfTerminal(ds, cashflows, terminal_text, wacc_text) ==
    IF terminal_text = "" THEN DcfRejected(Append(ds, InputError))
    ELSE DcfGrowth(ds, cashflows, FDiv(FloatOfText(terminal_text), FromInt(100)), wacc_text)

\* The parsed cash flows: at least 2, and the question asked when one is negative.
DcfCashflows(parsed, terminal_text, wacc_text, yes) ==
    IF parsed.exc # 0 THEN DcfRejected(<<InputError>>)
    ELSE IF Len(parsed.v) < 2 THEN DcfRejected(<<InputError>>)
    ELSE IF NegativeCount(parsed.v, Len(parsed.v)) > 0
    THEN (IF yes THEN DcfTerminal(<<ConfirmInput>>, parsed.v, terminal_text, wacc_text)
          ELSE DcfRejected(<<ConfirmInput>>))
    ELSE DcfTerminal(<<>>, parsed.v, terminal_text, wacc_text)

calculate_dcf(cashflow_items, terminal_text, wacc_text, yes) ==
    IF IsBlankEntry(cashflow_items) THEN DcfRejected(<<InputError>>)
    ELSE DcfCashflows(ParsedList(FloatsOfItems(cashflow_items, Len(cashflow_items))),
                      Strip(terminal_text), Strip(wacc_text), yes)

\* calculate_npv, by its stages.  The inputs as validated: the dialogs shown,
\* and the rate and the cash flows when they are accepted.
NpvRejected(ds) == [ok |-> FALSE, dialogs |-> ds, rate |-> 0, cashflows |-> <<>>]
NpvAccepted(ds, rate, cashflows) ==
    [ok |-> TRUE, dialogs |-> ds, rate |-> rate, cashflows |-> cashflows]

\* The parsed cash flows: at least 2, and the question asked when the first is
\* positive.
NpvCashflows(ds, rate, parsed, yes) ==
    IF parsed.exc # 0 THEN NpvRejected(Append(ds, InputError))
    ELSE IF Len(parsed.v) < 2 THEN NpvRejected(Append(ds, InputError))
    ELSE IF FGt(parsed.v[1], 0)
    THEN (IF yes THEN NpvAccepted(Append(ds, ConfirmInput), rate, parsed.v)
          ELSE NpvRejected(Append(ds, ConfirmInput)))
    ELSE NpvAccepted(ds, rate, parsed.v)

NpvEntry(ds, rate, cashflow_items, yes) ==
    IF IsBlankEntry(cashflow_items) THEN NpvRejected(Append(ds, InputError))
    ELSE NpvCashflows(ds, rate,
                      ParsedList(FloatsOfItems(cashflow_items, Len(cashflow_items))), yes)

\* rate = float(rate_text) / 100 and its warnings
NpvRate(rate, cashflow_items, yes) ==
    IF IsErr(rate) THEN NpvRejected(<<InputError>>)
    ELSE IF FLt(rate, 0) \/ FGt(rate, One)
    THEN NpvEntry(<<InputWarning>>, rate, cashflow_items, yes)
    ELSE NpvEntry(<<>>, rate, cashflow_items, yes)

NpvInputs(rate_text, cashflow_items, yes) ==
    IF Strip(rate_text) = "" THEN NpvRejected(<<InputError>>)
    ELSE NpvRate(FDiv(FloatOfText(Strip(rate_text)), FromInt(100)), cashflow_items, yes)

\* "if irr:", "if payback:": None and 0 are false, every other float is true.
Truthy(x) == x.kind = "float" /\ x.v # 0

\* The question that closes the analysis: its text is put together only when
\* payback is true, and formats irr as a number, which raises TypeError when
\* irr is None.
NpvClosing(irr, payback) ==
    IF Truthy(payback) /\ irr.kind = "None" THEN CalculationError
    ELSE Dialog("askquestion", "NPV Analysis Complete")

\* result_text, as what it is written from.
NpvText(npv_value, irr, payback) ==
    [kind |-> "npv",
     v |-> [npv |-> npv_value,
            irr_line |-> IF Truthy(irr) THEN "IRR: rate" ELSE "IRR: Unable to calculate",
            irr |-> irr,
            payback_line |-> IF Truthy(payback) THEN "Payback: years"
                             ELSE "Payback: Never pays back",
            payback |-> payback]]

\* The basic calculator.  The display's text is a sequence of characters;
\* float(text) reads it and str(value) writes it.
DigitChars == <<"0", "1", "2", "3", "4", "5", "6", "7", "8", "9">>
IsDigit(c) == \E d \in 1..10 : DigitChars[d] = c
DigitValue(c) == (CHOOSE d \in 1..10 : DigitChars[d] = c) - 1
DigitCount(chars) == Cardinality({k \in 1..Len(chars) : IsDigit(chars[k])})

\* The digits of chars read as one integer, the point skipped.
RECURSIVE DigitsValue(_, _)
DigitsValue(chars, k) ==
    IF k = 0 THEN 0
    ELSE IF chars[k] = "." THEN DigitsValue(chars, k - 1)
    ELSE 10 * DigitsValue(chars, k - 1) + DigitValue(chars[k])

\* The position of the point in chars, 0 for none.
PointAt(chars) ==
    IF \E k \in 1..Len(chars) : chars[k] = "."
    THEN CHOOSE k \in 1..Len(chars) : chars[k] = "."
    ELSE 0

\* digits, with at most one point among them, and one digit at least
IsUnsignedNumeral(chars) ==
    /\ \A k \in 1..Len(chars) : IsDigit(chars[k]) \/ chars[k] = "."
    /\ Cardinality({k \in 1..Len(chars) : chars[k] = "."}) <= 1
    /\ DigitCount(chars) >= 1

\* The digits that decide the value to the unit: the whole part and the first
\* ScaleDigits + 1 digits of the fraction.
Deciding(chars) ==
    IF PointAt(chars) = 0 \/ Len(chars) - PointAt(chars) <= ScaleDigits + 1 THEN chars
    ELSE SubSeq(chars, 1, PointAt(chars) + ScaleDigits + 1)

UnsignedValue(chars) ==
    IF PointAt(chars) = 0 THEN Norm(FromInt(DigitsValue(chars, Len(chars))))
    ELSE Norm(Lit(DigitsValue(Deciding(chars), Len(Deciding(chars))),
                  Len(Deciding(chars)) - PointAt(chars)))

\* float(text) for the texts the display can hold: a decimal numeral with or
\* without a sign, inf, nan; every other text raises ValueError.
FloatOfChars(chars) ==
    IF chars = <<"n", "a", "n">> THEN NaN
    ELSE IF chars = <<"i", "n", "f">> THEN PosInf
    ELSE IF chars = <<"-", "i", "n", "f">> THEN NegInf
    ELSE IF IsUnsignedNumeral(chars) THEN UnsignedValue(chars)
    ELSE IF Len(chars) >= 2 /\ chars[1] = "-" /\ IsUnsignedNumeral(Tail(chars))
    THEN FNeg(UnsignedValue(Tail(chars)))
    ELSE ValueError

\* The decimal digits of the natural number n.
RECURSIVE IntChars(_)
IntChars(n) ==
    IF n < 10 THEN <<DigitChars[n + 1]>>
    ELSE Append(IntChars(n \div 10), DigitChars[(n % 10) + 1])

\* The digits of the fraction f / 10^k, the zeros at the end dropped but for
\* the one of a fraction of 0.
RECURSIVE FractionChars(_, _)
FractionChars(f, k) ==
    IF f = 0 THEN <<"0">>
    ELSE IF f % 10 = 0 /\ k > 1 THEN FractionChars(f \div 10, k - 1)
    ELSE IF k = 1 THEN <<DigitChars[f + 1]>>
    ELSE Append(FractionChars(f \div 10, k - 1), DigitChars[(f % 10) + 1])

\* str(value) of a float: "5.0", "2.5", "-0.05", "inf", "nan".  (The floats of
\* this model have one zero and no exponent form.)
StrOfFloat(x) ==
    IF IsNaN(x) THEN <<"n", "a", "n">>
    ELSE IF x = PosInf THEN <<"i", "n", "f">>
    ELSE IF x = NegInf THEN <<"-", "i", "n", "f">>
    ELSE (IF x < 0 THEN <<"-">> ELSE <<>>)
         \o IntChars(Mag(x) \div Scale) \o <<".">> \o FractionChars(Mag(x) % Scale, ScaleDigits)

\* calculate(first, second, operator); "-", "*" and "/" stand for the keys
\* U+2212, U+00D7 and U+00F7.
calculate(first, second, operator_text) ==
    CASE operator_text = "+" -> FAdd(first, second)
      [] operator_text = "-" -> FSub(first, second)
      [] operator_text = "*" -> FMul(first, second)
      [] operator_text = "/" -> IF FEq(second, 0) THEN ValueError ELSE FDiv(first, second)
      [] OTHER -> second

\* ------------------------------------- evaluate_expression

\* math.radians(x): x * (pi / 180)
MathRadians(x) == FMul(x, Lit(175, 4))
\* math.sin, cos, tan, atan, sinh, cosh, tanh and exp, rounded to the unit, at
\* each argument the calls are made with.
MathSin(x) ==
    CASE x = 0 -> 0
      [] x = Lit(175, 4) -> Lit(175, 4)
      [] x = One -> Lit(8415, 4)
MathCos(x) ==
    CASE x = 0 -> One
      [] x = Lit(175, 4) -> Lit(9998, 4)
      [] x = One -> Lit(5403, 4)
MathTan(x) ==
    CASE x = 0 -> 0
      [] x = Lit(175, 4) -> Lit(175, 4)
      [] x = One -> Lit(15574, 4)
MathAtan(x) ==
    CASE x = 0 -> 0
      [] x = One -> Lit(7854, 4)
MathSinh(x) ==
    CASE x = 0 -> 0
      [] x = One -> Lit(11752, 4)
MathCosh(x) ==
    CASE x = 0 -> One
      [] x = One -> Lit(15431, 4)
MathTanh(x) ==
    CASE x = 0 -> 0
      [] x = One -> Lit(7616, 4)
MathExp(x) ==
    CASE x = 0 -> One
      [] x = One -> Lit(27183, 4)

\* if self.angle_mode == 'deg': x = math.radians(x)
FromMode(mode, x) == IF mode = "deg" THEN MathRadians(x) ELSE x
sin(mode, x) == MathSin(FromMode(mode, x))
cos(mode, x) == MathCos(FromMode(mode, x))
tan(mode, x) == MathTan(FromMode(mode, x))
atan(mode, x) == InMode(mode, MathAtan(x))

\* str(math.pi) and str(math.e)
PiChars == <<"3", ".", "1", "4", "1", "5", "9", "2", "6", "5", "3", "5", "8", "9", "7", "9", "3">>
EChars == <<"2", ".", "7", "1", "8", "2", "8", "1", "8", "2", "8", "4", "5", "9", "0", "4", "5">>

\* An expression is a sequence of characters; "U+00D7", "U+00F7", "U+2212" and
\* "U+03C0" stand for the multiplication sign, the division sign, the minus
\* sign and the Greek letter pi.
\* expression.replace(old, new) on one character.
ReplacedChar(c) ==
    CASE c = "U+00D7" -> <<"*">>
      [] c = "U+00F7" -> <<"/">>
      [] c = "U+2212" -> <<"-">>
      [] c = "^" -> <<"*", "*">>
      [] c = "U+03C0" -> PiChars
      [] c = "e" -> EChars
      [] OTHER -> <<c>>

\* _prepare_expression: the six replacements, each of every occurrence of one
\* character; no replacement writes a character a later one replaces.
RECURSIVE PrepareChars(_, _)
PrepareChars(chars, k) ==
    IF k = 0 THEN <<>> ELSE PrepareChars(chars, k - 1) \o ReplacedChar(chars[k])
_prepare_expression(expression) == PrepareChars(expression, Len(expression))

Letters == {"a", "b", "c", "d", "e", "f", "g", "h", "i", "j", "k", "l", "m", "n", "o", "p", "q", "r", "s", "t", "u", "v", "w", "x", "y", "z"}
\* The number of letters chars begins with.
RECURSIVE NameLen(_)
NameLen(chars) ==
    IF chars = <<>> THEN 0
    ELSE IF Head(chars) \in Letters THEN 1 + NameLen(Tail(chars))
    ELSE 0

\* The names of safe_dict, as characters.
NameChars(name) ==
    CASE name = "abs" -> <<"a", "b", "s">>
      [] name = "round" -> <<"r", "o", "u", "n", "d">>
      [] name = "pow" -> <<"p", "o", "w">>
      [] name = "sqrt" -> <<"s", "q", "r", "t">>
      [] name = "sin" -> <<"s", "i", "n">>
      [] name = "cos" -> <<"c", "o", "s">>
      [] name = "tan" -> <<"t", "a", "n">>
      [] name = "asin" -> <<"a", "s", "i", "n">>
      [] name = "acos" -> <<"a", "c", "o", "s">>
      [] name = "atan" -> <<"a", "t", "a", "n">>
      [] name = "sinh" -> <<"s", "i", "n", "h">>
      [] name = "cosh" -> <<"c", "o", "s", "h">>
      [] name = "tanh" -> <<"t", "a", "n", "h">>
      [] name = "log" -> <<"l", "o", "g">>
      [] name = "ln" -> <<"l", "n">>
      [] name = "exp" -> <<"e", "x", "p">>
      [] name = "factorial" -> <<"f", "a", "c", "t", "o", "r", "i", "a", "l">>
      [] name = "pi" -> <<"p", "i">>
      [] name = "e" -> <<"e">>
FunctionNames == {"abs", "round", "pow", "sqrt", "sin", "cos", "tan", "asin", "acos", "atan", "sinh", "cosh", "tanh", "log", "ln", "exp", "factorial"}
ConstantNames == {"pi", "e"}
IsNamed(chars, names) == \E name \in names : NameChars(name) = chars
NameOf(chars) == CHOOSE name \in FunctionNames \cup ConstantNames : NameChars(name) = chars

\* safe_dict[name](x) for the functions of one argument; pow(x) is a TypeError,
\* which ends as ValueError like every exception.
Applied(mode, name, x) ==
    CASE name = "abs" -> FAbs(x)
      [] name = "round" -> x
      [] name = "pow" -> ValueError
      [] name = "sqrt" -> MathSqrt(x)
      [] name = "sin" -> sin(mode, x)
      [] name = "cos" -> cos(mode, x)
      [] name = "tan" -> tan(mode, x)
      [] name = "asin" -> asin(mode, x)
      [] name = "acos" -> acos(mode, x)
      [] name = "atan" -> atan(mode, x)
      [] name = "sinh" -> MathSinh(x)
      [] name = "cosh" -> MathCosh(x)
      [] name = "tanh" -> MathTanh(x)
      [] name = "log" -> log10(x)
      [] name = "ln" -> ln(x)
      [] name = "exp" -> MathExp(x)
      [] name = "factorial" -> factorial(x)

NumeralValue(chars) == IF IsUnsignedNumeral(chars) THEN UnsignedValue(chars) ELSE ValueError

\* safe_dict[name](x, y): pow and round take two arguments, and a call of
\* another function with two is a TypeError.
Applied2(name, x, y) ==
    CASE name = "pow" /\ IsWhole(y) -> FPow(x, IntOf(y))
      [] name = "round" /\ IsWhole(x) /\ IsWhole(y) /\ y >= 0 -> x
      [] name \notin {"pow", "round"} -> ValueError

\* The position of the comma in chars, 0 for none.
CommaAt(chars) ==
    IF \E k \in 1..Len(chars) : chars[k] = ","
    THEN CHOOSE k \in 1..Len(chars) : chars[k] = ","
    ELSE 0
\* name(arguments), the arguments being one number or two.
Call(mode, name, arguments) ==
    IF CommaAt(arguments) = 0 THEN Applied(mode, name, NumeralValue(arguments))
    ELSE IF IsUnsignedNumeral(SubSeq(arguments, 1, CommaAt(arguments) - 1))
            /\ IsUnsignedNumeral(SubSeq(arguments, CommaAt(arguments) + 1, Len(arguments)))
    THEN Applied2(name, NumeralValue(SubSeq(arguments, 1, CommaAt(arguments) - 1)),
                  NumeralValue(SubSeq(arguments, CommaAt(arguments) + 1, Len(arguments))))
    ELSE ValueError

\* safe_dict[name]: the constants are numbers, and float() of a function is
\* a TypeError.
Named(name) ==
    CASE name = "pi" -> Lit(31416, 4)
      [] name = "e" -> Lit(27183, 4)
      [] OTHER -> ValueError

\* The position of the first operator sign in chars, 0 for none.
OperatorSigns == {"+", "-", "*", "/"}
SignAt(chars) ==
    IF \E k \in 1..Len(chars) : chars[k] \in OperatorSigns
    THEN CHOOSE k \in 1..Len(chars) :
            chars[k] \in OperatorSigns /\ \A j \in 1..(k - 1) : chars[j] \notin OperatorSigns
    ELSE 0

\* eval of "number sign number", ** being the power.
EvalBinary(chars) ==
    LET k == SignAt(chars)
    IN  IF k = 0 \/ k = Len(chars) THEN ValueError
        ELSE IF chars[k] = "*" /\ chars[k + 1] = "*"
        THEN (IF IsUnsignedNumeral(SubSeq(chars, k + 2, Len(chars)))
                 /\ IsWhole(NumeralValue(SubSeq(chars, k + 2, Len(chars))))
              THEN FPow(NumeralValue(SubSeq(chars, 1, k - 1)),
                        IntOf(NumeralValue(SubSeq(chars, k + 2, Len(chars)))))
              ELSE ValueError)
        ELSE calculate(NumeralValue(SubSeq(chars, 1, k - 1)),
                       NumeralValue(SubSeq(chars, k + 1, Len(chars))),
                       chars[k])

\* eval(expression, safe_dict) for the expressions made of one number, of one
\* name, of a function applied to one number or two, and of two numbers with a sign
\* between them; what Python does not parse, and every name that is not in
\* safe_dict, ends as an exception.
Eval(mode, chars) ==
    LET n == NameLen(chars)
    IN  IF n = 0 THEN (IF IsUnsignedNumeral(chars) THEN UnsignedValue(chars) ELSE EvalBinary(chars))
        ELSE IF ~IsNamed(SubSeq(chars, 1, n), FunctionNames \cup ConstantNames) THEN ValueError
        ELSE IF n = Len(chars) THEN Named(NameOf(chars))
        ELSE IF chars[n + 1] = "(" /\ chars[Len(chars)] = ")" /\ Len(chars) > n + 2
                /\ IsNamed(SubSeq(chars, 1, n), FunctionNames)
        THEN Call(mode, NameOf(SubSeq(chars, 1, n)), SubSeq(chars, n + 2, Len(chars) - 1))
        ELSE ValueError

\* Every exception of the evaluation is raised again as ValueError.
AsValueError(v) == IF IsErr(v) THEN ValueError ELSE v
evaluate_expression(mode, expression) == AsValueError(Eval(mode, _prepare_expression(expression)))

\* The bond's status as calculate_bond_price writes it, from the price and the
\* face value, and as calculate_ytm writes it, from the yield and the coupon
\* rate.
BondStatus(price, face_value) ==
    IF FGt(price, face_value) THEN "Premium"
    ELSE IF FLt(price, face_value) THEN "Discount"
    ELSE "Par"
YtmStatus(yield, coupon_rate) ==
    IF FGt(yield, coupon_rate) THEN "Discount"
    ELSE IF FLt(yield, coupon_rate) THEN "Premium"
    ELSE "Par"

\* ---------------------------------------------------------- the engine

\* The engine runs one call at a time.  pc is the place in the running call,
\* op the function called, args its arguments; it, rate, npv_val, derivative,
\* ytm, price_diff, cumulative and i are the locals of the functions' loops
\* (0 while unassigned); result is the value returned and raised the exception
\* that left the call (0 for none).
VARIABLES pc, op, args, it, rate, npv_val, derivative, ytm, price_diff,
          cumulative, i, result, raised, angle_mode, memory, memory_ops, last_result,
          display, operator, first_number, should_reset_display,
          calculation_history, last_calculation_data, clock, dialogs, calls,
          presses

vars == <<pc, op, args, it, rate, npv_val, derivative, ytm, price_diff,
          cumulative, i, result, raised, angle_mode, memory, memory_ops, last_result,
          display, operator, first_number, should_reset_display,
          calculation_history, last_calculation_data, clock, dialogs, calls,
          presses>>

\* The state of the ScientificCalculator object, which no function of
\* FinancialCalculations touches: its angle mode, its memory and the last
\* result of evaluate_expression.  memory_ops
\* is the history of the memory operations made on it so far, kept to state
\* what the memory holds; it is no field of the object.
scientific == <<angle_mode, memory, memory_ops, last_result>>

\* The state of the FinanceCalculator window, which neither engine touches:
\* the display, the basic calculator's pending operator and first number, the
\* history and the last calculation.  clock counts the history entries made
\* (the entry's timestamp); dialogs are the message boxes the handler that ran
\* last has shown and calls the engine functions it has called; presses counts
\* the button presses.
basic == <<operator, first_number, should_reset_display, presses>>
saved == <<calculation_history, last_calculation_data, clock>>
presentation == <<display, basic, saved, dialogs, calls>>

\* What the display shows: a text, as its characters.
Text(chars) == [kind |-> "text", v |-> chars]
\* self.first_number: None, or a float.
NoNumber == [kind |-> "None", v |-> 0]
\* self.last_calculation_data = None
NoData == [type |-> "None"]

irrLocals == <<it, rate, npv_val, derivative>>
ytmLocals == <<ytm, price_diff>>
paybackLocals == <<cumulative, i>>

\* All sequences over S of length at most n.
RECURSIVE SeqsUpTo(_, _)
SeqsUpTo(S, n) ==
    IF n = 0 THEN {<<>>}
    ELSE LET shorter == SeqsUpTo(S, n - 1)
         IN  shorter \cup {Append(s, x) : s \in {t \in shorter : Len(t) = n - 1}, x \in S}

\* The input space of the model, in currency units and in units of 1/Scale.
IrrMaxLen == 3
IrrCashValues == {-2000, -1000, 0, 550, 1000, 1100}
IrrCashflowInputs == SeqsUpTo({FromInt(c) : c \in IrrCashValues}, IrrMaxLen)
IrrGuesses == {Lit(1, 1), 0, Lit(-1, 0)}

PaybackMaxLen == 4
PaybackCashValues == {-1000, -400, 0, 400, 1000}
\* One more series: its recovery is 10^8 times what is left to recover, more
\* than the digits of a float hold next to the year.
PaybackEdgeInputs == {<<Lit(-1, 4), 0, FromInt(10000)>>}
PaybackInputs ==
    SeqsUpTo({FromInt(c) : c \in PaybackCashValues}, PaybackMaxLen) \cup PaybackEdgeInputs

DcfMaxLen == 3
DcfCashValues == {-50, 0, 100, 110}
DcfCashflowInputs == SeqsUpTo({FromInt(c) : c \in DcfCashValues}, DcfMaxLen)
DcfGrowthRates == {Lit(3, 2), Lit(-5, 2), Lit(12, 2)}
DcfDiscountRates == {Lit(12, 2), Lit(3, 2), Lit(-1, 0)}
MaxTerminalYear == 4
DcfTerminalYears == {NoYear} \cup 0..MaxTerminalYear

MaxYears == 2
MaxPaymentsPerYear == 2
FaceValues == {FromInt(10), FromInt(1000)}
CouponRates == {0, Lit(5, 2)}
YieldRates == {0, Lit(5, 2), Lit(6, 2), Lit(-1, 0), Lit(-2, 0)}
BondInputs ==
    [face_value : FaceValues, coupon_rate : CouponRates, yield_rate : YieldRates,
     years_to_maturity : 1..MaxYears, payments_per_year : 1..MaxPaymentsPerYear]

\* Bonds whose yield equals the coupon rate at the ends of the rates: a period
\* yield of -100 % (the rate -payments_per_year), and a rate of 20000 % on the
\* small face value, whose compounding leaves the floats.
ParRates == {FromInt(-k) : k \in 1..MaxPaymentsPerYear} \cup {FromInt(200)}
ParBondInputs ==
    {a \in [face_value : FaceValues, coupon_rate : ParRates, yield_rate : ParRates,
            years_to_maturity : 1..MaxYears, payments_per_year : 1..MaxPaymentsPerYear] :
        /\ a.coupon_rate = a.yield_rate
        /\ \/ a.coupon_rate = FromInt(-a.payments_per_year)
           \/ a.coupon_rate = FromInt(200) /\ a.face_value = FromInt(10)}

\* Target prices of yield_to_maturity: the price of a bond of the model at a
\* yield of the model, and two prices no yield in range gives (three times
\* and three tenths of the face value).
RoundTripYields == {0, Lit(5, 2), Lit(6, 2)}
YtmTargets(face_value, coupon_rate, years_to_maturity, payments_per_year) ==
    {bond_price(face_value, coupon_rate, y, years_to_maturity,
                payments_per_year).bond_price : y \in RoundTripYields}
    \cup {FMul(face_value, FromInt(3)), FMul(face_value, Lit(3, 1))}
YtmGuesses == {Lit(5, 2), Lit(2, 0), Lit(-1, 0)}

\* Two more calls of yield_to_maturity, from the default guess 0.05: the bond
\* of test_bond_valuation (face 1000, coupon 5 %, 10 years, semi-annual) at
\* its price for a yield of 6 %, and a bond of face value 0.1 at its price for
\* a yield of 0.
YtmRoundTrip(face_value, coupon_rate, yield_rate, years_to_maturity, payments_per_year) ==
    [bond_price |-> bond_price(face_value, coupon_rate, yield_rate, years_to_maturity,
                               payments_per_year).bond_price,
     face_value |-> face_value, coupon_rate |-> coupon_rate,
     years_to_maturity |-> years_to_maturity,
     payments_per_year |-> payments_per_year, guess |-> Lit(5, 2)]
TestBond == YtmRoundTrip(FromInt(1000), Lit(5, 2), Lit(6, 2), 10, 2)
SmallBond == YtmRoundTrip(Lit(1, 1), Lit(5, 2), 0, 1, 1)
\* And two from a guess outside [-0.5, 1.0]: a bond of face value 1000 with a
\* coupon of 5 %, 1 year, annual, at its price for the yield that is the guess.
AboveRangeBond == [YtmRoundTrip(FromInt(1000), Lit(5, 2), FromInt(2), 1, 1) EXCEPT !.guess = FromInt(2)]
BelowRangeBond == [YtmRoundTrip(FromInt(1000), Lit(5, 2), Lit(-6, 1), 1, 1) EXCEPT !.guess = Lit(-6, 1)]
YtmRoundTripInputs == {TestBond, SmallBond, AboveRangeBond, BelowRangeBond}

NpvMaxLen == 3
NpvCashValues == {-1000, 0, 500, 1100}
NpvCashflowInputs == SeqsUpTo({FromInt(c) : c \in NpvCashValues}, NpvMaxLen)
NpvRates == {0, Lit(1, 1), Lit(-5, 1), Lit(-1, 0), Lit(-2, 0), FromInt(200)}

CostRates == {Lit(12, 2), Lit(6, 2)}
TaxRates == {0, Lit(25, 2)}
MarketValues == {FromInt(v) : v \in {-200, 0, 200, 800}}

CapmRates == {Lit(3, 2), Lit(8, 2)}
Betas == {0, Lit(12, 1), Lit(-5, 1)}

MaxPeriods == 3
TvmValues == {FromInt(v) : v \in {-100, 0, 100}}
TvmRates == {0, Lit(5, 2), Lit(-1, 0)}

CagrValues == {FromInt(v) : v \in {-200, -100, 0, 100, 400}}
CagrPeriods == -1..MaxPeriods

\* for _ in range(100), of irr and of yield_to_maturity
IrrMaxIterations == 100
YtmMaxIterations == 100

Init ==
    /\ pc = "idle"
    /\ op = "none"
    /\ args = <<>>
    /\ it = 0
    /\ rate = 0
    /\ npv_val = 0
    /\ derivative = 0
    /\ ytm = 0
    /\ price_diff = 0
    /\ cumulative = 0
    /\ i = 0
    /\ result = None
    /\ raised = 0
    /\ angle_mode = "deg"
    /\ memory = 0
    /\ memory_ops = <<>>
    /\ last_result = 0
    /\ display = Text(<<"0">>)
    /\ operator = "None"
    /\ first_number = NoNumber
    /\ should_reset_display = FALSE
    /\ presses = 0
    /\ calculation_history = <<>>
    /\ last_calculation_data = NoData
    /\ clock = 0
    /\ dialogs = <<>>
    /\ calls = <<>>

\* return v
Return(v) ==
    /\ pc' = "returned"
    /\ result' = v
    /\ raised' = 0

\* The exception e leaves the call.
Raise(e) ==
    /\ pc' = "raised"
    /\ result' = None
    /\ raised' = e

\* ---------------------------------------------------------------- irr

\* abs(npv_val) < 1e-6
IrrTolExp == 6
\* A looser test than the code's: abs(npv_val) < 1e-2.
IrrConvergedLoose(v) == AbsBelow(v, 1, 2)
IrrConverged(v) == AbsBelow(v, 1, IrrTolExp)

\* abs(derivative) < 1e-10
IrrDerivativeTolExp == 10
\* The stalled-search test left out.
IrrStalledNever(d) == FALSE
IrrStalled(d) == AbsBelow(d, 1, IrrDerivativeTolExp)

\* irr(cashflows, guess): rate = guess, and the loop is entered.
CallIrr ==
    /\ pc = "idle"
    /\ \E cfs \in IrrCashflowInputs, g \in IrrGuesses :
          /\ args' = [cashflows |-> cfs, guess |-> g]
          /\ rate' = g
    /\ op' = "irr"
    /\ pc' = "irr_npv"
    /\ it' = 0
    /\ UNCHANGED <<npv_val, derivative, ytmLocals, paybackLocals, result, raised>>
    /\ UNCHANGED <<scientific, presentation>>

\* npv_val = npv(rate, cashflows); if abs(npv_val) < 1e-6: return rate
IrrNpv ==
    /\ pc = "irr_npv"
    /\ LET v == npv(rate, args.cashflows)
       IN  IF IsErr(v)
           THEN Raise(v) /\ UNCHANGED npv_val
           ELSE /\ npv_val' = v
                /\ IF IrrConverged(v)
                   THEN Return(Float(rate))
                   ELSE pc' = "irr_derivative" /\ UNCHANGED <<result, raised>>
    /\ UNCHANGED <<op, args, it, rate, derivative, ytmLocals, paybackLocals>>
    /\ UNCHANGED <<scientific, presentation>>

\* derivative = npv_derivative(rate, cashflows); if abs(derivative) < 1e-10: break
\* (and the statement after the loop returns None)
IrrDerivative ==
    /\ pc = "irr_derivative"
    /\ LET d == npv_derivative(rate, args.cashflows)
       IN  IF IsErr(d)
           THEN Raise(d) /\ UNCHANGED derivative
           ELSE /\ derivative' = d
                /\ IF IrrStalled(d)
                   THEN Return(None)
                   ELSE pc' = "irr_update" /\ UNCHANGED <<result, raised>>
    /\ UNCHANGED <<op, args, it, rate, npv_val, ytmLocals, paybackLocals>>
    /\ UNCHANGED <<scientific, presentation>>

\* rate = rate - npv_val / derivative, then the next iteration, or return None
\* once range(100) is used up.
IrrUpdate ==
    /\ pc = "irr_update"
    /\ LET r == FSub(rate, FDiv(npv_val, derivative))
       IN  IF IsErr(r)
           THEN Raise(r) /\ UNCHANGED <<rate, it>>
           ELSE /\ rate' = r
                /\ it' = it + 1
                /\ IF it + 1 < IrrMaxIterations
                   THEN pc' = "irr_npv" /\ UNCHANGED <<result, raised>>
                   ELSE Return(None)
    /\ UNCHANGED <<op, args, npv_val, derivative, ytmLocals, paybackLocals>>
    /\ UNCHANGED <<scientific, presentation>>

\* ----------------------------------------------------- payback_period

\* A strict test in place of the code's: cashflows[0] > 0.
NoInvestmentStrict(cashflows) == Len(cashflows) = 0 \/ FGt(cashflows[1], 0)
\* not cashflows or cashflows[0] >= 0
NoInvestment(cashflows) == Len(cashflows) = 0 \/ FGe(cashflows[1], 0)

\* if not cashflows or cashflows[0] >= 0: return None; cumulative = cashflows[0]
CallPayback ==
    /\ pc = "idle"
    /\ \E cfs \in PaybackInputs :
          /\ args' = [cashflows |-> cfs]
          /\ IF NoInvestment(cfs)
             THEN Return(None) /\ UNCHANGED paybackLocals
             ELSE /\ cumulative' = cfs[1]
                  /\ i' = 1
                  /\ pc' = "payback_loop"
                  /\ UNCHANGED <<result, raised>>
    /\ op' = "payback_period"
    /\ UNCHANGED <<irrLocals, ytmLocals>>
    /\ UNCHANGED <<scientific, presentation>>

\* One turn of for i, cf in enumerate(cashflows[1:], 1), or return None when
\* the cash flows are used up.  cashflows[i] of Python is cashflows[i + 1] here.
PaybackStep ==
    /\ pc = "payback_loop"
    /\ IF i + 1 > Len(args.cashflows)
       THEN Return(None) /\ UNCHANGED paybackLocals
       ELSE LET cf == args.cashflows[i + 1]
                c == FAdd(cumulative, cf)
            IN  /\ cumulative' = c
                /\ IF FGe(c, 0)
                   THEN /\ UNCHANGED i
                        /\ IF i = 1
                           THEN Return(Float(FromInt(i)))
                           ELSE LET r == Interpolate(i, c, cf)
                                IN  IF IsErr(r) THEN Raise(r) ELSE Return(Float(r))
                   ELSE /\ i' = i + 1
                        /\ UNCHANGED <<pc, result, raised>>
    /\ UNCHANGED <<op, args, irrLocals, ytmLocals>>
    /\ UNCHANGED <<scientific, presentation>>

\* ------------------------------------------------------ dcf_valuation

Dict(d) == [kind |-> "dict", v |-> d]

CallDcf ==
    /\ pc = "idle"
    /\ \E F \in DcfCashflowInputs, g \in DcfGrowthRates, r \in DcfDiscountRates,
          T \in DcfTerminalYears :
          /\ args' = [free_cashflows |-> F, terminal_growth_rate |-> g,
                      discount_rate |-> r, terminal_year |-> T]
          /\ LET d == dcf_valuation(F, g, r, T)
             IN  IF d.exc # 0 THEN Raise(d.exc) ELSE Return(Dict(d))
    /\ op' = "dcf_valuation"
    /\ UNCHANGED <<irrLocals, ytmLocals, paybackLocals>>
    /\ UNCHANGED <<scientific, presentation>>

\* --------------------------------------------------------- bond_price

CallBondPrice ==
    /\ pc = "idle"
    /\ \E a \in BondInputs \cup ParBondInputs :
          /\ args' = a
          /\ LET b == bond_price(a.face_value, a.coupon_rate, a.yield_rate,
                                 a.years_to_maturity, a.payments_per_year)
             IN  IF b.exc # 0 THEN Raise(b.exc) ELSE Return(Dict(b))
    /\ op' = "bond_price"
    /\ UNCHANGED <<irrLocals, ytmLocals, paybackLocals>>
    /\ UNCHANGED <<scientific, presentation>>

\* -------------------------------------------------- yield_to_maturity

\* abs(price_diff) < 0.01
YtmTolExp == 2
\* A slipped digit in the test: abs(price_diff) < 0.1.
YtmConvergedTenth(d) == AbsBelow(d, 1, 1)
\* A looser test than the code's: abs(price_diff) < 1.
YtmConvergedLoose(d) == AbsBelow(d, 1, 0)
YtmConverged(d) == AbsBelow(d, 1, YtmTolExp)

\* abs(derivative) < 1e-10
YtmDerivativeTolExp == 10
YtmStalled(d) == AbsBelow(d, 1, YtmDerivativeTolExp)

\* The lower bound left out: ytm > 1.0 alone.
YtmAboveRange(y) == FGt(y, Lit(1, 0))
\* ytm < -0.5 or ytm > 1.0
YtmOutOfRange(y) == FLt(y, Lit(-5, 1)) \/ FGt(y, Lit(1, 0))

\* yield_to_maturity(bond_price, face_value, ...): ytm = guess, and the loop
\* is entered.
CallYtm ==
    /\ pc = "idle"
    /\ \/ \E f \in FaceValues, c \in CouponRates, n \in 1..MaxYears,
             k \in 1..MaxPaymentsPerYear, g \in YtmGuesses :
             \E p \in YtmTargets(f, c, n, k) :
                /\ args' = [bond_price |-> p, face_value |-> f, coupon_rate |-> c,
                            years_to_maturity |-> n, payments_per_year |-> k,
                            guess |-> g]
                /\ ytm' = g
       \/ \E a \in YtmRoundTripInputs :
             /\ args' = a
             /\ ytm' = a.guess
    /\ op' = "yield_to_maturity"
    /\ pc' = "ytm_price"
    /\ it' = 0
    /\ UNCHANGED <<rate, npv_val, derivative, price_diff, paybackLocals, result, raised>>
    /\ UNCHANGED <<scientific, presentation>>

\* price_diff = bond_price_function(ytm); if abs(price_diff) < 0.01: return ytm
YtmPrice ==
    /\ pc = "ytm_price"
    /\ LET d == bond_price_function(args, ytm)
       IN  IF IsErr(d)
           THEN Raise(d) /\ UNCHANGED price_diff
           ELSE /\ price_diff' = d
                /\ IF YtmConverged(d)
                   THEN Return(Float(ytm))
                   ELSE pc' = "ytm_derivative" /\ UNCHANGED <<result, raised>>
    /\ UNCHANGED <<op, args, irrLocals, ytm, paybackLocals>>
    /\ UNCHANGED <<scientific, presentation>>

\* derivative = bond_price_derivative(ytm); if abs(derivative) < 1e-10: break
YtmDerivative ==
    /\ pc = "ytm_derivative"
    /\ LET d == bond_price_derivative(args, ytm)
       IN  IF IsErr(d)
           THEN Raise(d) /\ UNCHANGED derivative
           ELSE /\ derivative' = d
                /\ IF YtmStalled(d)
                   THEN Return(None)
                   ELSE pc' = "ytm_update" /\ UNCHANGED <<result, raised>>
    /\ UNCHANGED <<op, args, it, rate, npv_val, ytmLocals, paybackLocals>>
    /\ UNCHANGED <<scientific, presentation>>

\* ytm = ytm - price_diff / derivative; if ytm < -0.5 or ytm > 1.0: break;
\* then the next iteration, or return None once range(100) is used up.
YtmUpdate ==
    /\ pc = "ytm_update"
    /\ LET y == FSub(ytm, FDiv(price_diff, derivative))
       IN  IF IsErr(y)
           THEN Raise(y) /\ UNCHANGED <<ytm, it>>
           ELSE /\ ytm' = y
                /\ it' = it + 1
                /\ IF YtmOutOfRange(y) \/ it + 1 >= YtmMaxIterations
                   THEN Return(None)
                   ELSE pc' = "ytm_price" /\ UNCHANGED <<result, raised>>
    /\ UNCHANGED <<op, args, rate, npv_val, derivative, price_diff, paybackLocals>>
    /\ UNCHANGED <<scientific, presentation>>

\* ------------------------------------- npv, wacc, capm, pv, fv, cagr

\* A float is returned, a complex number is returned, or the exception raised
\* leaves the call.
Complex(z) == [kind |-> "complex", v |-> z]
ReturnOrRaise(x) == IF IsErr(x) THEN Raise(x) ELSE Return(Float(x))
ReturnPower(g) ==
    IF g.complex THEN Return(Complex([modulus |-> g.v, n |-> g.n]))
    ELSE ReturnOrRaise(g.v)

CallNpv ==
    /\ pc = "idle"
    /\ \E r \in NpvRates, cfs \in NpvCashflowInputs :
          /\ args' = [rate |-> r, cashflows |-> cfs]
          /\ ReturnOrRaise(npv(r, cfs))
    /\ op' = "npv"
    /\ UNCHANGED <<irrLocals, ytmLocals, paybackLocals>>
    /\ UNCHANGED <<scientific, presentation>>

CallWacc ==
    /\ pc = "idle"
    /\ \E ce \in CostRates, cd \in CostRates, t \in TaxRates,
          E \in MarketValues, D \in MarketValues :
          /\ args' = [cost_of_equity |-> ce, cost_of_debt |-> cd, tax_rate |-> t,
                      market_value_equity |-> E, market_value_debt |-> D]
          /\ ReturnOrRaise(wacc(ce, cd, t, E, D))
    /\ op' = "wacc"
    /\ UNCHANGED <<irrLocals, ytmLocals, paybackLocals>>
    /\ UNCHANGED <<scientific, presentation>>

CallCapm ==
    /\ pc = "idle"
    /\ \E rf \in CapmRates, b \in Betas, rm \in CapmRates :
          /\ args' = [risk_free_rate |-> rf, beta |-> b, market_return |-> rm]
          /\ ReturnOrRaise(capm(rf, b, rm))
    /\ op' = "capm"
    /\ UNCHANGED <<irrLocals, ytmLocals, paybackLocals>>
    /\ UNCHANGED <<scientific, presentation>>

CallCagr ==
    /\ pc = "idle"
    /\ \E b \in CagrValues, e \in CagrValues, n \in CagrPeriods :
          /\ args' = [beginning_value |-> b, ending_value |-> e, periods |-> n]
          /\ ReturnPower(compound_annual_growth_rate(b, e, n))
    /\ op' = "compound_annual_growth_rate"
    /\ UNCHANGED <<irrLocals, ytmLocals, paybackLocals>>
    /\ UNCHANGED <<scientific, presentation>>

CallPresentValue ==
    /\ pc = "idle"
    /\ \E fv \in TvmValues, r \in TvmRates, n \in 0..MaxPeriods :
          /\ args' = [future_value |-> fv, rate |-> r, periods |-> n]
          /\ ReturnOrRaise(present_value(fv, r, n))
    /\ op' = "present_value"
    /\ UNCHANGED <<irrLocals, ytmLocals, paybackLocals>>
    /\ UNCHANGED <<scientific, presentation>>

CallFutureValue ==
    /\ pc = "idle"
    /\ \E pv \in TvmValues, r \in TvmRates, n \in 0..MaxPeriods :
          /\ args' = [present_value |-> pv, rate |-> r, periods |-> n]
          /\ ReturnOrRaise(future_value(pv, r, n))
    /\ op' = "future_value"
    /\ UNCHANGED <<irrLocals, ytmLocals, paybackLocals>>
    /\ UNCHANGED <<scientific, presentation>>

\* ------------------------------------------------------------ the end

\* The loop counter kept from one call to the next.
FinishKeepsCount ==
    /\ pc \in {"returned", "raised"}
    /\ pc' = "idle"
    /\ op' = "none"
    /\ args' = <<>>
    /\ it' = it
    /\ rate' = 0
    /\ npv_val' = 0
    /\ derivative' = 0
    /\ ytm' = 0
    /\ price_diff' = 0
    /\ cumulative' = 0
    /\ i' = 0
    /\ result' = None
    /\ raised' = 0
    /\ UNCHANGED <<scientific, presentation>>
\* The call is over: its frame is gone and the engine keeps nothing of it.
Finish ==
    /\ pc \in {"returned", "raised"}
    /\ pc' = "idle"
    /\ op' = "none"
    /\ args' = <<>>
    /\ it' = 0
    /\ rate' = 0
    /\ npv_val' = 0
    /\ derivative' = 0
    /\ ytm' = 0
    /\ price_diff' = 0
    /\ cumulative' = 0
    /\ i' = 0
    /\ result' = None
    /\ raised' = 0
    /\ UNCHANGED <<scientific, presentation>>

Next ==
    \/ CallIrr
    \/ IrrNpv
    \/ IrrDerivative
    \/ IrrUpdate
    \/ CallPayback
    \/ PaybackStep
    \/ CallDcf
    \/ CallBondPrice
    \/ CallYtm
    \/ YtmPrice
    \/ YtmDerivative
    \/ YtmUpdate
    \/ CallNpv
    \/ CallWacc
    \/ CallCapm
    \/ CallCagr
    \/ CallPresentValue
    \/ CallFutureValue
    \/ Finish

Spec == Init /\ [][Next]_vars

\* ------------------------------------ the ScientificCalculator's calls

\* The arguments the calls are made with: around and at the edges of each
\* domain, with the infinities and NaN.
FactorialArgs ==
    {NegInf, FromInt(-1), Lit(-5, 1), 0, Lit(5, 1), One, Lit(25, 1), FromInt(3),
     FromInt(5), FromInt(7), PosInf, NaN}
SquareRootArgs ==
    {NegInf, FromInt(-1), Lit(-1, 4), 0, Lit(1, 4), FromInt(2), FromInt(16), PosInf, NaN}
RootRadicands == {FromInt(-8), 0, FromInt(8), FromInt(16)}
RootDegrees == {FromInt(k) : k \in -2..3}
LogArgs ==
    {NegInf, FromInt(-1), Lit(-1, 4), 0, Lit(1, 2), Lit(1, 1), Lit(5, 1), One,
     FromInt(2), FromInt(8), FromInt(10), FromInt(100), PosInf, NaN}
ArcArgs ==
    {NegInf, FromInt(-2), -One - 1, -One, Lit(-5, 1), 0, Lit(5, 1), One, One + 1,
     FromInt(2), PosInf, NaN}
\* mode.lower() of the argument of set_angle_mode
AngleModes == {"deg", "degrees", "rad", "radians", "grad"}

\* The locals of the financial functions, which no call of the calculator
\* touches.
financial == <<irrLocals, ytmLocals, paybackLocals>>

SetAngleMode ==
    /\ pc = "idle"
    /\ \E mode \in AngleModes :
          /\ args' = [mode |-> mode]
          /\ IF mode \in {"deg", "degrees"}
             THEN angle_mode' = "deg" /\ Return(None)
             ELSE IF mode \in {"rad", "radians"}
             THEN angle_mode' = "rad" /\ Return(None)
             ELSE Raise(ValueError) /\ UNCHANGED angle_mode
    /\ op' = "set_angle_mode"
    /\ UNCHANGED <<financial, presentation, memory, memory_ops, last_result>>

CallFactorial ==
    /\ pc = "idle"
    /\ \E n \in FactorialArgs :
          /\ args' = [n |-> n]
          /\ ReturnOrRaise(factorial(n))
    /\ op' = "factorial"
    /\ UNCHANGED <<financial, presentation, scientific>>

CallSquareRoot ==
    /\ pc = "idle"
    /\ \E x \in SquareRootArgs :
          /\ args' = [x |-> x]
          /\ ReturnOrRaise(square_root(x))
    /\ op' = "square_root"
    /\ UNCHANGED <<financial, presentation, scientific>>

CallNthRoot ==
    /\ pc = "idle"
    /\ \E x \in RootRadicands, n \in RootDegrees :
          /\ args' = [x |-> x, n |-> n]
          /\ ReturnOrRaise(nth_root(x, n))
    /\ op' = "nth_root"
    /\ UNCHANGED <<financial, presentation, scientific>>

CallAsin ==
    /\ pc = "idle"
    /\ \E x \in ArcArgs :
          /\ args' = [x |-> x]
          /\ ReturnOrRaise(asin(angle_mode, x))
    /\ op' = "asin"
    /\ UNCHANGED <<financial, presentation, scientific>>

CallAcos ==
    /\ pc = "idle"
    /\ \E x \in ArcArgs :
          /\ args' = [x |-> x]
          /\ ReturnOrRaise(acos(angle_mode, x))
    /\ op' = "acos"
    /\ UNCHANGED <<financial, presentation, scientific>>

CallLog10 ==
    /\ pc = "idle"
    /\ \E x \in LogArgs :
          /\ args' = [x |-> x]
          /\ ReturnOrRaise(log10(x))
    /\ op' = "log10"
    /\ UNCHANGED <<financial, presentation, scientific>>

CallLn ==
    /\ pc = "idle"
    /\ \E x \in LogArgs :
          /\ args' = [x |-> x]
          /\ ReturnOrRaise(ln(x))
    /\ op' = "ln"
    /\ UNCHANGED <<financial, presentation, scientific>>

CallLog ==
    /\ pc = "idle"
    /\ \E x \in LogArgs, base \in LogArgs :
          /\ args' = [x |-> x, base |-> base]
          /\ ReturnOrRaise(log(x, base))
    /\ op' = "log"
    /\ UNCHANGED <<financial, presentation, scientific>>

SciNext ==
    \/ SetAngleMode
    \/ CallFactorial
    \/ CallSquareRoot
    \/ CallNthRoot
    \/ CallAsin
    \/ CallAcos
    \/ CallLog10
    \/ CallLn
    \/ CallLog
    \/ Finish

SciSpec == Init /\ [][SciNext]_vars

\* ------------------------------- the ScientificCalculator's memory

\* The number of memory operations a run makes.
MaxMemoryOps == 4
MemoryValues == {FromInt(8), FromInt(10), FromInt(42), PosInf}

\* A memory operation made with the value v (0 for the operations without).
MemoryOp(name, v) == [name |-> name, value |-> v]

MemoryStore ==
    /\ pc = "idle"
    /\ Len(memory_ops) < MaxMemoryOps
    /\ \E v \in MemoryValues :
          /\ args' = [value |-> v]
          /\ memory' = v
          /\ memory_ops' = Append(memory_ops, MemoryOp("memory_store", v))
    /\ op' = "memory_store"
    /\ Return(None)
    /\ UNCHANGED <<financial, presentation, angle_mode, last_result>>

MemoryAdd ==
    /\ pc = "idle"
    /\ Len(memory_ops) < MaxMemoryOps
    /\ \E v \in MemoryValues :
          /\ args' = [value |-> v]
          /\ memory' = memory_add(memory, v)
          /\ memory_ops' = Append(memory_ops, MemoryOp("memory_add", v))
    /\ op' = "memory_add"
    /\ Return(None)
    /\ UNCHANGED <<financial, presentation, angle_mode, last_result>>

MemorySubtract ==
    /\ pc = "idle"
    /\ Len(memory_ops) < MaxMemoryOps
    /\ \E v \in MemoryValues :
          /\ args' = [value |-> v]
          /\ memory' = memory_subtract(memory, v)
          /\ memory_ops' = Append(memory_ops, MemoryOp("memory_subtract", v))
    /\ op' = "memory_subtract"
    /\ Return(None)
    /\ UNCHANGED <<financial, presentation, angle_mode, last_result>>

MemoryClear ==
    /\ pc = "idle"
    /\ Len(memory_ops) < MaxMemoryOps
    /\ args' = <<>>
    /\ memory' = 0
    /\ memory_ops' = Append(memory_ops, MemoryOp("memory_clear", 0))
    /\ op' = "memory_clear"
    /\ Return(None)
    /\ UNCHANGED <<financial, presentation, angle_mode, last_result>>

MemoryRecall ==
    /\ pc = "idle"
    /\ Len(memory_ops) < MaxMemoryOps
    /\ args' = <<>>
    /\ memory_ops' = Append(memory_ops, MemoryOp("memory_recall", 0))
    /\ op' = "memory_recall"
    /\ Return(Float(memory))
    /\ UNCHANGED <<financial, presentation, angle_mode, memory, last_result>>

MemoryNext ==
    \/ MemoryStore
    \/ MemoryAdd
    \/ MemorySubtract
    \/ MemoryClear
    \/ MemoryRecall
    \/ Finish

MemorySpec == Init /\ [][MemoryNext]_vars

\* ------------------------------------------- the DCF calculator page

\* The calculations a run saves to the history.
MaxCalculations == 1

\* The texts entered: the cash flows as the items between the commas.
DcfEntryTexts ==
    {<<"">>, <<"500">>, <<"500", "">>, <<"500", "550">>, <<"-500", "550">>,
     <<"500", "abc">>, <<"nan", "550">>, <<"0", "0">>, <<"500", "550", "600">>}
TerminalTexts == {"", "abc", "nan", "inf", "-5", "2.5", "10"}
WaccTexts == {"", "abc", "nan", "inf", "0", "2.5", " 10 ", "60"}
\* The answers to "Continue anyway?", asked only of negative cash flows.
Answers(items) == IF \E k \in 1..Len(items) : items[k] = "-500" THEN BOOLEAN ELSE {TRUE}

\* result_text, as the numbers it is written from.
DcfText(o) ==
    [kind |-> "dcf",
     v |-> [enterprise_value |-> o.d.enterprise_value, terminal_percentage |-> o.percentage,
            pv_cashflows |-> o.d.pv_cashflows, pv_terminal_value |-> o.d.pv_terminal_value]]
\* The entry save_calculation_data('dcf', inputs_data, results_data) makes.
DcfEntry(o) ==
    HistoryEntry(clock, "dcf",
                 [cash_flows |-> o.calls[1].args.free_cashflows,
                  terminal_growth |->
                      FMul(o.calls[1].args.terminal_growth_rate, FromInt(100)),
                  discount_rate |-> FMul(o.calls[1].args.discount_rate, FromInt(100))],
                 [enterprise_value |-> o.d.enterprise_value,
                  pv_cashflows |-> o.d.pv_cashflows,
                  pv_terminal_value |-> o.d.pv_terminal_value,
                  terminal_value |-> o.d.terminal_value])

\* The handler has run with the outcome o: the result is displayed and saved,
\* or nothing but the dialogs is left of it.
DcfDone(o) ==
    /\ dialogs' = o.dialogs
    /\ calls' = o.calls
    /\ IF o.shown
       THEN /\ display' = DcfText(o)
            /\ calculation_history' = add_to_history(calculation_history, DcfEntry(o))
            /\ last_calculation_data' = DcfEntry(o)
            /\ clock' = clock + 1
       ELSE UNCHANGED <<display, saved>>

CalculateDcf ==
    /\ pc = "idle"
    /\ clock < MaxCalculations
    /\ \E cf \in DcfEntryTexts, t \in TerminalTexts, w \in WaccTexts :
          \E yes \in Answers(cf) :
             /\ args' = [cashflows_text |-> cf, terminal_text |-> t, wacc_text |-> w,
                         continue_anyway |-> yes]
             /\ DcfDone(calculate_dcf(cf, t, w, yes))
    /\ op' = "calculate_dcf"
    /\ Return(None)
    /\ UNCHANGED <<financial, scientific, basic>>

DcfPageNext ==
    \/ CalculateDcf
    \/ Finish

DcfPageSpec == Init /\ [][DcfPageNext]_vars

\* ------------------------------------------------------ the history

\* The entries a run adds to the history: enough to pass the limit.
MaxAdds == 102

\* The lists json.load reads from the history file: entries of earlier runs,
\* newest first, fewer than the limit, at the limit and beyond it.
LoadedEntry(k) == HistoryEntry(-k, "loaded", [n |-> k], [n |-> k])
LoadedHistory(n) == [k \in 1..n |-> LoadedEntry(k)]
LoadedLengths == {2, HistoryLimit, HistoryLimit + 50}

\* What is added: the calculation's type, with its inputs and results.
AddedTypes == {"npv"}
AddedEntry(type) == HistoryEntry(clock, type, [n |-> clock], [n |-> clock])

\* add_to_history(calculation_type, inputs, results)
AddToHistory ==
    /\ pc = "idle"
    /\ clock < MaxAdds
    /\ \E type \in AddedTypes :
          /\ args' = [calculation_type |-> type]
          /\ calculation_history' = add_to_history(calculation_history, AddedEntry(type))
          /\ last_calculation_data' = AddedEntry(type)
    /\ clock' = clock + 1
    /\ op' = "add_to_history"
    /\ Return(None)
    /\ UNCHANGED <<financial, scientific, display, basic, dialogs, calls>>

\* save_calculation_data(calc_type, inputs, results): last_calculation_data is
\* set, and then set again by add_to_history, to the entry with its timestamp.
SaveCalculationData ==
    /\ pc = "idle"
    /\ clock < MaxAdds
    /\ \E type \in AddedTypes :
          /\ args' = [calc_type |-> type]
          /\ calculation_history' = add_to_history(calculation_history, AddedEntry(type))
          /\ last_calculation_data' = AddedEntry(type)
    /\ clock' = clock + 1
    /\ op' = "save_calculation_data"
    /\ Return(None)
    /\ UNCHANGED <<financial, scientific, display, basic, dialogs, calls>>

\* clear_history(): the history is emptied when the question is answered yes.
ClearHistory ==
    /\ pc = "idle"
    /\ \E yes \in BOOLEAN :
          /\ args' = [yes |-> yes]
          /\ IF yes
             THEN /\ calculation_history' = <<>>
                  /\ dialogs' = <<Dialog("askyesno", "Confirm Clear"),
                                  Dialog("showinfo", "History Cleared")>>
             ELSE /\ UNCHANGED calculation_history
                  /\ dialogs' = <<Dialog("askyesno", "Confirm Clear")>>
    /\ op' = "clear_history"
    /\ Return(None)
    /\ UNCHANGED <<financial, scientific, display, basic, last_calculation_data, clock, calls>>

\* load_history(): the history is the list read from the file.
LoadHistory ==
    /\ pc = "idle"
    /\ \E n \in LoadedLengths :
          /\ args' = [entries |-> n]
          /\ calculation_history' = LoadedHistory(n)
    /\ op' = "load_history"
    /\ Return(None)
    /\ UNCHANGED <<financial, scientific, display, basic, last_calculation_data, clock,
                   dialogs, calls>>

HistoryNext ==
    \/ AddToHistory
    \/ SaveCalculationData
    \/ ClearHistory
    \/ LoadHistory
    \/ Finish

HistorySpec == Init /\ [][HistoryNext]_vars

\* ------------------------------------------- the NPV calculator page

RateTexts == {"", "abc", "10", "-5", "-100", "nan"}
NpvEntryTexts ==
    {<<"">>, <<"-500">>, <<"-500", "abc">>, <<"-500", "550">>, <<"-500", "1000", "-550">>,
     <<"-1000", "0">>, <<"-1000", "0", "1100">>, <<"500", "550">>, <<"0", "0">>}
\* The answers to "Continue anyway?", asked only of a positive first flow.
NpvAnswers(items) == IF items[1] = "500" THEN BOOLEAN ELSE {TRUE}

\* irr(cashflows) is called with its default guess.
IrrDefaultGuess == Lit(1, 1)

\* calculate_npv up to its call of irr: the inputs are validated and
\* rejected, or npv is computed and raises, or irr is entered.
CalculateNpv ==
    /\ pc = "idle"
    /\ clock < MaxCalculations
    /\ \E r \in RateTexts, cf \in NpvEntryTexts :
          \E yes \in NpvAnswers(cf) :
             LET o == NpvInputs(r, cf, yes)
             IN  IF ~o.ok
                 THEN /\ args' = [rate_text |-> r, cashflows_text |-> cf]
                      /\ dialogs' = o.dialogs
                      /\ calls' = <<>>
                      /\ Return(None)
                      /\ UNCHANGED irrLocals
                 ELSE IF IsErr(npv(o.rate, o.cashflows))
                 THEN /\ args' = [rate_text |-> r, cashflows_text |-> cf]
                      /\ dialogs' = Append(o.dialogs, CalculationError)
                      /\ calls' = <<Called("npv", [rate |-> o.rate, cashflows |-> o.cashflows])>>
                      /\ Return(None)
                      /\ UNCHANGED irrLocals
                 ELSE /\ args' = [rate_text |-> r, cashflows_text |-> cf, rate |-> o.rate,
                                  cashflows |-> o.cashflows, guess |-> IrrDefaultGuess]
                      /\ dialogs' = o.dialogs
                      /\ calls' = <<Called("npv", [rate |-> o.rate, cashflows |-> o.cashflows]),
                                    Called("irr", [cashflows |-> o.cashflows])>>
                      /\ rate' = IrrDefaultGuess
                      /\ it' = 0
                      /\ pc' = "irr_npv"
                      /\ UNCHANGED <<npv_val, derivative, result, raised>>
    /\ op' = "calculate_npv"
    /\ UNCHANGED <<ytmLocals, paybackLocals, scientific, display, basic, saved>>

\* irr is running, or is over, inside calculate_npv.
InsideNpv == op = "calculate_npv" /\ "guess" \in DOMAIN args

\* The entry save_calculation_data('npv', inputs_data, results_data) makes.
NpvSaved(payback) ==
    HistoryEntry(clock, "npv",
                 [discount_rate |-> FMul(args.rate, FromInt(100)), cash_flows |-> args.cashflows],
                 [npv |-> npv(args.rate, args.cashflows), irr |-> result, payback |-> payback])

\* payback_period has returned payback: the result is displayed and saved,
\* and the closing question asked.
NpvShown(payback) ==
    /\ display' = NpvText(npv(args.rate, args.cashflows), result, payback)
    /\ calculation_history' = add_to_history(calculation_history, NpvSaved(payback))
    /\ last_calculation_data' = NpvSaved(payback)
    /\ clock' = clock + 1
    /\ dialogs' = Append(dialogs, NpvClosing(result, payback))

\* calculate_npv from the end of irr: payback_period, the display, the history,
\* the closing question; an exception of irr or payback_period is caught and
\* shown as a calculation error.
CalculateNpvResume ==
    /\ InsideNpv
    /\ pc \in {"returned", "raised"}
    /\ IF pc = "raised"
       THEN /\ dialogs' = Append(dialogs, CalculationError)
            /\ UNCHANGED <<calls, display, saved>>
       ELSE /\ calls' = Append(calls, Called("payback_period", [cashflows |-> args.cashflows]))
            /\ IF PaybackOf(args.cashflows)[1] = "raised"
               THEN /\ dialogs' = Append(dialogs, CalculationError)
                    /\ UNCHANGED <<display, saved>>
               ELSE NpvShown(PaybackOf(args.cashflows)[2])
    /\ args' = [rate_text |-> args.rate_text, cashflows_text |-> args.cashflows_text]
    /\ Return(None)
    /\ UNCHANGED <<op, financial, scientific, basic>>

\* The handler is over.
NpvPageFinish == ~InsideNpv /\ Finish

NpvPageNext ==
    \/ CalculateNpv
    \/ IrrNpv
    \/ IrrDerivative
    \/ IrrUpdate
    \/ CalculateNpvResume
    \/ NpvPageFinish

NpvPageSpec == Init /\ [][NpvPageNext]_vars

\* ------------------------------------------- the basic calculator

MaxPresses == 5
MaxDigits == 3
DigitKeys == {"0", "5"}
OperatorKeys == {"/", "*", "-", "+"}

\* text == 'C'
ClickClear ==
    /\ display' = Text(<<"0">>)
    /\ operator' = "None"
    /\ first_number' = NoNumber
    /\ should_reset_display' = FALSE
    /\ Return(None)

\* text in the operators: float(current) and calculate are not inside a try.
ClickOperator(text) ==
    IF first_number = NoNumber
    THEN IF IsErr(FloatOfChars(display.v))
         THEN Raise(FloatOfChars(display.v)) /\ UNCHANGED <<display, operator, first_number, should_reset_display>>
         ELSE /\ first_number' = Float(FloatOfChars(display.v))
              /\ operator' = text
              /\ should_reset_display' = TRUE
              /\ Return(None)
              /\ UNCHANGED display
    ELSE IF operator # "None" /\ ~should_reset_display
    THEN LET chained == calculate(first_number.v, FloatOfChars(display.v), operator)
         IN  IF IsErr(chained)
             THEN Raise(chained) /\ UNCHANGED <<display, operator, first_number, should_reset_display>>
             ELSE /\ display' = Text(StrOfFloat(chained))
                  /\ first_number' = Float(chained)
                  /\ operator' = text
                  /\ should_reset_display' = TRUE
                  /\ Return(None)
    ELSE /\ operator' = text
         /\ should_reset_display' = TRUE
         /\ Return(None)
         /\ UNCHANGED <<display, first_number>>

\* text == '=': inside a try whose except sets the display to "Error"
ClickEquals ==
    /\ IF operator # "None" /\ first_number # NoNumber
       THEN LET computed == calculate(first_number.v, FloatOfChars(display.v), operator)
            IN  IF IsErr(computed)
                THEN /\ display' = Text(<<"E", "r", "r", "o", "r">>)
                     /\ UNCHANGED <<operator, first_number, should_reset_display>>
                ELSE /\ display' = Text(StrOfFloat(computed))
                     /\ first_number' = NoNumber
                     /\ operator' = "None"
                     /\ should_reset_display' = TRUE
       ELSE UNCHANGED <<display, operator, first_number, should_reset_display>>
    /\ Return(None)

\* text == '+/-' and text == '%': inside a try whose except passes
ClickSign ==
    /\ display' = IF IsErr(FloatOfChars(display.v)) THEN display
                  ELSE Text(StrOfFloat(FNeg(FloatOfChars(display.v))))
    /\ UNCHANGED <<operator, first_number, should_reset_display>>
    /\ Return(None)
ClickPercent ==
    /\ display' = IF IsErr(FloatOfChars(display.v)) THEN display
                  ELSE Text(StrOfFloat(FDiv(FloatOfChars(display.v), FromInt(100))))
    /\ UNCHANGED <<operator, first_number, should_reset_display>>
    /\ Return(None)

\* text == '.'
ClickPoint ==
    /\ IF should_reset_display
       THEN display' = Text(<<"0", ".">>) /\ should_reset_display' = FALSE
       ELSE IF PointAt(display.v) = 0
       THEN display' = Text(Append(display.v, ".")) /\ UNCHANGED should_reset_display
       ELSE UNCHANGED <<display, should_reset_display>>
    /\ UNCHANGED <<operator, first_number>>
    /\ Return(None)

\* the digits
ClickDigit(text) ==
    /\ IF should_reset_display \/ display.v = <<"0">>
       THEN display' = Text(<<text>>) /\ should_reset_display' = FALSE
       ELSE display' = Text(Append(display.v, text)) /\ UNCHANGED should_reset_display
    /\ UNCHANGED <<operator, first_number>>
    /\ Return(None)

\* button_click(text), the display holding a text.
ButtonClick ==
    /\ pc = "idle"
    /\ presses < MaxPresses
    /\ \E text \in DigitKeys \cup OperatorKeys \cup {"C", "=", "+/-", "%", "."} :
          /\ args' = [text |-> text]
          /\ text \in DigitKeys =>
                should_reset_display \/ DigitCount(display.v) < MaxDigits
          /\ CASE text = "C" -> ClickClear
               [] text \in OperatorKeys -> ClickOperator(text)
               [] text = "=" -> ClickEquals
               [] text = "+/-" -> ClickSign
               [] text = "%" -> ClickPercent
               [] text = "." -> ClickPoint
               [] OTHER -> ClickDigit(text)
    /\ op' = "button_click"
    /\ presses' = presses + 1
    /\ UNCHANGED <<financial, scientific, saved, dialogs, calls>>

BasicNext ==
    \/ ButtonClick
    \/ Finish

BasicSpec == Init /\ [][BasicNext]_vars

\* ------------------------------------------- evaluate_expression

\* name(arguments) as an expression.
Application(name, arguments) == NameChars(name) \o <<"(">> \o arguments \o <<")">>
ExpressionArguments == {<<"0">>, <<"1">>}
ExpressionTexts ==
    {Application(name, a) : name \in FunctionNames, a \in ExpressionArguments}
    \cup {Application(name, <<"1", ",", "1">>) : name \in {"pow", "round"}}
    \cup {NameChars(name) : name \in ConstantNames}
    \cup {<<"U+03C0">>}
    \cup {<<"1", c, "1">> : c \in {"U+00D7", "U+00F7", "U+2212", "^", "+"}}
    \cup {<<"1", "U+00F7", "0">>}

\* evaluate_expression(expression): the value is kept in last_result and
\* returned, and every exception is raised again as ValueError.
EvaluateExpression ==
    /\ pc = "idle"
    /\ \E expression \in ExpressionTexts :
          /\ args' = [expression |-> expression]
          /\ IF IsErr(evaluate_expression(angle_mode, expression))
             THEN Raise(ValueError) /\ UNCHANGED last_result
             ELSE /\ last_result' = evaluate_expression(angle_mode, expression)
                  /\ Return(Float(evaluate_expression(angle_mode, expression)))
    /\ op' = "evaluate_expression"
    /\ UNCHANGED <<financial, presentation, angle_mode, memory, memory_ops>>

ExpressionNext ==
    \/ SetAngleMode
    \/ EvaluateExpression
    \/ Finish

ExpressionSpec == Init /\ [][ExpressionNext]_vars

\* ------------------------------------------------------------- claims

Finished == pc \in {"returned", "raised"}
ReturnedFloat(f) == op = f /\ pc = "returned" /\ result.kind = "float"
ReturnedNone(f) == op = f /\ pc = "returned" /\ result.kind = "None"

\* C1: whenever irr returns a rate, the net present value of the cash flows at
\* that rate has magnitude below 1e-6.
C1_IrrRootValid ==
    ReturnedFloat("irr") => AbsBelow(npv(result.v, args.cashflows), 1, 6)

\* irr has returned a rate that Newton steps led to.
C1_Witness ==
    /\ ReturnedFloat("irr")
    /\ it > 0
    /\ result.v # args.guess
    /\ Len(args.cashflows) >= 2

\* C2: whenever yield_to_maturity returns a rate, the price of the bond at that
\* rate is within 0.01 of the target price.
C2_YtmPriceMatches ==
    ReturnedFloat("yield_to_maturity") =>
        /\ bond_price(args.face_value, args.coupon_rate, result.v,
                      args.years_to_maturity, args.payments_per_year).exc = 0
        /\ AbsBelow(FSub(bond_price(args.face_value, args.coupon_rate, result.v,
                                    args.years_to_maturity,
                                    args.payments_per_year).bond_price,
                         args.bond_price), 1, 2)

\* yield_to_maturity has returned a rate that Newton steps led to.
C2_Witness ==
    /\ ReturnedFloat("yield_to_maturity")
    /\ it > 0
    /\ result.v # args.guess

\* The loop counter of both root-finders stays within range(100), and a
\* convergence check is only made on one of its 100 turns.
IterationBound ==
    /\ it <= 100
    /\ pc \in {"irr_npv", "irr_derivative", "irr_update",
               "ytm_price", "ytm_derivative", "ytm_update"} => it < 100

\* C3: irr and yield_to_maturity end after at most 100 turns of their loop (at
\* most 100 convergence checks), and a call in which no check met the
\* convergence test ends by returning NOT_FOUND.
C3_EndsWithinCapOrNotFound ==
    op \in {"irr", "yield_to_maturity"} =>
        /\ IterationBound
        /\ Finished =>
              /\ pc = "returned"
              /\ \/ result.kind = "None"
                 \/ op = "irr" /\ AbsBelow(npv_val, 1, 6)
                 \/ op = "yield_to_maturity" /\ AbsBelow(price_diff, 1, 2)

\* C4: in irr, a derivative of magnitude below 1e-10 at the trial rate ends the
\* call at once with NOT_FOUND, and the Newton step is never reached with such
\* a derivative.
C4_IrrStallAborts ==
    [][/\ (/\ pc = "irr_derivative"
           /\ AbsBelow(npv_derivative(rate, args.cashflows), 1, 10))
          => (pc' = "returned" /\ result' = None)
       /\ pc' = "irr_update" => ~AbsBelow(derivative', 1, 10)]_vars

\* irr has given up on a vanishing derivative after at least one Newton step.
C4_Witness ==
    /\ ReturnedNone("irr")
    /\ it > 0
    /\ it < 100
    /\ AbsBelow(derivative, 1, 10)
    /\ ~AbsBelow(npv_val, 1, 6)

\* C5: yield_to_maturity returns NOT_FOUND as soon as the central-difference
\* derivative has magnitude below 1e-10, or a Newton update takes the trial
\* rate below -0.5 or above 1.0; the price is never evaluated at a trial rate
\* that an update took out of that range.
C5_YtmAborts ==
    [][/\ (/\ pc = "ytm_derivative"
           /\ AbsBelow(bond_price_derivative(args, ytm), 1, 10))
          => (pc' = "returned" /\ result' = None)
       /\ (/\ pc = "ytm_update"
           /\ pc' # "raised"
           /\ (FLt(ytm', Lit(-5, 1)) \/ FGt(ytm', Lit(1, 0))))
          => (pc' = "returned" /\ result' = None)
       /\ (pc' = "ytm_price" /\ it' > 0)
          => ~(FLt(ytm', Lit(-5, 1)) \/ FGt(ytm', Lit(1, 0)))]_vars

\* yield_to_maturity has given up because an update took the rate below -0.5.
C5_Witness ==
    /\ ReturnedNone("yield_to_maturity")
    /\ it > 0
    /\ FLt(ytm, Lit(-5, 1))

\* yield_to_maturity has given up on a vanishing derivative.
YtmStallSeen ==
    /\ ReturnedNone("yield_to_maturity")
    /\ AbsBelow(derivative, 1, 10)
    /\ ~AbsBelow(price_diff, 1, 2)

\* yield_to_maturity has given up because an update took the rate above 1.0.
YtmAboveSeen ==
    /\ ReturnedNone("yield_to_maturity")
    /\ it > 0
    /\ FGt(ytm, Lit(1, 0))

\* The running sum C[0] + ... + C[k] of a cash-flow series (Python's indices:
\* C[k] is cashflows[k + 1]).
RECURSIVE RunningSum(_, _)
RunningSum(C, k) == IF k = 0 THEN C[1] ELSE RunningSum(C, k - 1) + C[k + 1]

\* The indices k >= 1 whose running sum is >= 0, and the first of them.
RecoveryIndices(C) == {k \in 1..(Len(C) - 1) : RunningSum(C, k) >= 0}
FirstRecovery(C) ==
    CHOOSE k \in RecoveryIndices(C) : \A j \in RecoveryIndices(C) : k <= j

\* What the claim says payback_period returns when the recovery is at index n.
PaybackExpected(C, n) ==
    IF n = 1 THEN FromInt(1)
    ELSE FAdd(FromInt(n - 1), FDiv(Mag(RunningSum(C, n - 1)), C[n + 1]))

\* C6: with C[0] < 0 and i the first index >= 1 whose running sum is >= 0,
\* payback_period returns 1 if i = 1 and (i - 1) + |C[0] + ... + C[i-1]| / C[i]
\* otherwise; so [-1000, 1000] gives 1 and [-1000, 400, 400, 400] gives 2.5.
C6_PaybackInterpolates ==
    (op = "payback_period" /\ Finished) =>
        /\ (/\ Len(args.cashflows) >= 1
            /\ args.cashflows[1] < 0
            /\ RecoveryIndices(args.cashflows) # {})
           => (/\ pc = "returned"
               /\ result = Float(PaybackExpected(args.cashflows,
                                                 FirstRecovery(args.cashflows))))
        /\ args.cashflows = <<FromInt(-1000), FromInt(1000)>>
           => result = Float(FromInt(1))
        /\ args.cashflows = <<FromInt(-1000), FromInt(400), FromInt(400), FromInt(400)>>
           => result = Float(Lit(25, 1))

\* payback_period has returned the interpolated 2.5 of [-1000, 400, 400, 400].
C6_Witness ==
    /\ ReturnedFloat("payback_period")
    /\ args.cashflows = <<FromInt(-1000), FromInt(400), FromInt(400), FromInt(400)>>
    /\ i = 3
    /\ result.v = Lit(25, 1)

\* C7: payback_period returns NOT_FOUND exactly when the series is empty, or
\* C[0] >= 0, or no index k >= 1 has a running sum >= 0; in every other case
\* it returns a number.
C7_PaybackNotFoundExactly ==
    (op = "payback_period" /\ Finished) =>
        /\ pc = "returned"
        /\ result.kind = "None" <=>
              \/ Len(args.cashflows) = 0
              \/ args.cashflows[1] >= 0
              \/ RecoveryIndices(args.cashflows) = {}
        /\ result.kind # "None" => (result.kind = "float" /\ IsFinite(result.v))

\* payback_period has scanned an investment that is never recovered.
C7_Witness ==
    /\ ReturnedNone("payback_period")
    /\ Len(args.cashflows) >= 3
    /\ args.cashflows[1] < 0
    /\ i = Len(args.cashflows)

\* What dcf_valuation was called with and has returned.
DcfReturned == op = "dcf_valuation" /\ pc = "returned"
DcfYear ==
    IF args.terminal_year = NoYear THEN Len(args.free_cashflows)
    ELSE args.terminal_year

\* C8: for a non-empty F and rates r # g, r # -1, dcf_valuation returns a
\* result with enterprise_value = pv_cashflows + pv_terminal_value and
\* pv_cashflows = the sum of cashflow_breakdown.
C8_DcfEnterpriseValue ==
    (/\ op = "dcf_valuation"
     /\ Finished
     /\ Len(args.free_cashflows) >= 1
     /\ args.discount_rate # args.terminal_growth_rate
     /\ args.discount_rate # Lit(-1, 0))
    => /\ pc = "returned"
       /\ FEq(result.v.enterprise_value,
              FAdd(result.v.pv_cashflows, result.v.pv_terminal_value))
       /\ FEq(result.v.pv_cashflows, FSum(result.v.cashflow_breakdown))

\* dcf_valuation has returned a valuation of several cash flows whose terminal
\* value counts.
C8_Witness ==
    /\ DcfReturned
    /\ Len(args.free_cashflows) >= 2
    /\ result.v.pv_terminal_value # 0
    /\ result.v.pv_cashflows # 0

\* C9: dcf_valuation returns cashflow_breakdown[i] = F[i] / (1 + r)^(i + 1) for
\* every i, terminal_value = F[last] * (1 + g) / (r - g), and pv_terminal_value
\* = terminal_value / (1 + r)^T, T being terminal_year, or len(F) when it is
\* omitted.
C9_DcfComponents ==
    DcfReturned =>
        /\ Len(result.v.cashflow_breakdown) = Len(args.free_cashflows)
        /\ \A k \in 1..Len(args.free_cashflows) :
              result.v.cashflow_breakdown[k] =
                 FDiv(args.free_cashflows[k],
                      FPow(FAdd(One, args.discount_rate), k))
        /\ result.v.terminal_value =
              FDiv(FMul(args.free_cashflows[Len(args.free_cashflows)],
                        FAdd(One, args.terminal_growth_rate)),
                   FSub(args.discount_rate, args.terminal_growth_rate))
        /\ result.v.pv_terminal_value =
              FDiv(result.v.terminal_value,
                   FPow(FAdd(One, args.discount_rate), DcfYear))

\* dcf_valuation has returned with an explicit terminal_year other than len(F).
C9_Witness ==
    /\ DcfReturned
    /\ Len(args.free_cashflows) >= 2
    /\ args.terminal_year # NoYear
    /\ args.terminal_year # Len(args.free_cashflows)
    /\ result.v.terminal_value # 0

\* dcf_valuation has returned with terminal_year omitted.
DcfDefaultYearSeen ==
    /\ DcfReturned
    /\ Len(args.free_cashflows) >= 2
    /\ args.terminal_year = NoYear
    /\ result.v.terminal_value # 0

\* C10: for a valid bond (face value > 0, years and payments_per_year positive
\* integers, period_yield # -1, a zero period_yield included) the result of
\* bond_price has bond_price = pv_coupons + pv_face_value; the one way such a
\* call ends without a result is the OverflowError of a compounding that
\* leaves the floats.
C10_BondPriceIsSum ==
    (/\ op = "bond_price"
     /\ Finished
     /\ args.face_value > 0
     /\ args.years_to_maturity >= 1
     /\ args.payments_per_year >= 1
     /\ FDiv(args.yield_rate, FromInt(args.payments_per_year)) # Lit(-1, 0))
    => /\ pc = "returned" \/ raised = OverflowError
       /\ pc = "returned" =>
              FEq(result.v.bond_price,
                  FAdd(result.v.pv_coupons, result.v.pv_face_value))

\* bond_price has priced a coupon bond at a zero period yield.
C10_Witness ==
    /\ op = "bond_price"
    /\ pc = "returned"
    /\ args.yield_rate = 0
    /\ args.coupon_rate > 0
    /\ result.v.pv_coupons > 0

\* bond_price has priced a coupon bond at a yield other than zero.
BondAnnuitySeen ==
    /\ op = "bond_price"
    /\ pc = "returned"
    /\ args.yield_rate > 0
    /\ result.v.pv_coupons > 0

\* The bond priced has a yield equal to its coupon rate.
YieldIsCoupon ==
    /\ op = "bond_price"
    /\ Finished
    /\ args.coupon_rate = args.yield_rate

\* The price is the face value to within a thousandth of it, the tolerance of
\* the model's four decimal digits over the periods of a bond.
PricedAtPar ==
    /\ pc = "returned"
    /\ IsFinite(result.v.bond_price)
    /\ FAbs(FSub(result.v.bond_price, args.face_value)) <= FMul(args.face_value, Lit(1, 3))
    /\ args.coupon_rate = 0 => result.v.bond_price = args.face_value

\* C11 as stated: for every rate c, bond_price(F, c, c, N, k) prices the bond at
\* par, the face value F, within floating-point tolerance.
C11_ParAtEveryRate == YieldIsCoupon => PricedAtPar

\* C11, amended: for every rate c >= 0 whose coupon F * c and compounding
\* (1 + c/k) ** (N * k) stay within the floats, bond_price(F, c, c, N, k)
\* returns a price equal to F within floating-point tolerance, and exactly F
\* when c = 0.
C11_ParAtNonNegativeRate ==
    (/\ YieldIsCoupon
     /\ FGe(args.coupon_rate, 0)
     /\ IsFinite(FMul(args.face_value, args.coupon_rate))
     /\ ~IsErr(FPow(FAdd(One, FDiv(args.yield_rate, FromInt(args.payments_per_year))),
                    args.years_to_maturity * args.payments_per_year)))
    => PricedAtPar

\* A coupon bond over several periods has been priced at a yield equal to its
\* positive coupon rate, through the annuity formula.
C11_Witness ==
    /\ YieldIsCoupon
    /\ pc = "returned"
    /\ args.coupon_rate = Lit(5, 2)
    /\ args.years_to_maturity * args.payments_per_year >= 4
    /\ result.v.pv_coupons > 0

\* A bond of zero coupon and zero yield has been priced.
ParAtZeroSeen ==
    /\ YieldIsCoupon
    /\ pc = "returned"
    /\ args.coupon_rate = 0

\* The pricing at a period yield of -100 % has raised ZeroDivisionError.
ParAtMinusOneRaised ==
    /\ YieldIsCoupon
    /\ pc = "raised"
    /\ raised = ZeroDivisionError
    /\ args.yield_rate = FromInt(-args.payments_per_year)

\* The pricing at a rate whose compounding overflows has raised OverflowError.
ParOverflowRaised ==
    /\ YieldIsCoupon
    /\ pc = "raised"
    /\ raised = OverflowError
    /\ FGt(args.coupon_rate, 0)

\* The price of the bond of the running call at the yield y.
PriceAt(y) ==
    bond_price(args.face_value, args.coupon_rate, y, args.years_to_maturity,
               args.payments_per_year).bond_price

\* C12 as stated: when yield_to_maturity, given the price of a bond at a yield
\* y, returns a rate, the rate is within 0.01 of y.
C12_RoundTripRate ==
    ReturnedFloat("yield_to_maturity") =>
        \A y \in RoundTripYields :
            args.bond_price = PriceAt(y) => AbsBelow(FSub(result.v, y), 1, 2)

\* C12, amended: when yield_to_maturity, given the price of a bond at a yield
\* y, returns a rate, the price at that rate is within 0.01 of the price at y;
\* and for the bond F = 1000, c = 0.05, N = 10, k = 2 priced at y = 0.06 the
\* search from the default guess 0.05 returns a rate within 0.01 of 0.06.
C12_RoundTripPrice ==
    /\ ReturnedFloat("yield_to_maturity") =>
          \A y \in RoundTripYields :
              args.bond_price = PriceAt(y) =>
                  AbsBelow(FSub(PriceAt(result.v), PriceAt(y)), 1, 2)
    /\ (op = "yield_to_maturity" /\ Finished /\ args = TestBond) =>
          /\ ReturnedFloat("yield_to_maturity")
          /\ AbsBelow(FSub(result.v, Lit(6, 2)), 1, 2)

\* The search for the yield of the test's bond, priced at 6 %, has returned a
\* rate after Newton steps from the guess 0.05.
C12_Witness ==
    /\ ReturnedFloat("yield_to_maturity")
    /\ args = TestBond
    /\ it > 0
    /\ result.v # args.guess

\* The search for the yield of the small bond, priced at a yield of 0, has
\* returned its guess 0.05.
SmallBondGuessReturned ==
    /\ ReturnedFloat("yield_to_maturity")
    /\ args = SmallBond
    /\ result.v = Lit(5, 2)

\* The terms of bond_price's inputs that the claims about its result use.
BondReturned == op = "bond_price" /\ pc = "returned"
Periods == args.years_to_maturity * args.payments_per_year
PeriodYield == FDiv(args.yield_rate, FromInt(args.payments_per_year))
Coupon == FDiv(FMul(args.face_value, args.coupon_rate), FromInt(args.payments_per_year))

\* CF_t: the coupon for t < periods, coupon + face value for t = periods.
CF(t) == IF t < Periods THEN Coupon ELSE FAdd(Coupon, args.face_value)

\* acc + the sum over u = t..periods of (u / payments_per_year) * CF_u / (1 + period_yield)^u
RECURSIVE TimeWeightedFrom(_, _)
TimeWeightedFrom(t, acc) ==
    IF t > Periods THEN acc
    ELSE TimeWeightedFrom(t + 1,
             FAdd(acc, FMul(FDiv(FromInt(t), FromInt(args.payments_per_year)),
                            FDiv(CF(t), FPow(FAdd(One, PeriodYield), t)))))

\* C13: the duration bond_price returns is the sum over t = 1..periods of
\* (t / payments_per_year) * CF_t / (1 + period_yield)^t, divided by the bond
\* price, where CF_t is the coupon for t < periods and coupon + face value for
\* t = periods.
C13_DurationIsWeightedTime ==
    BondReturned =>
        result.v.duration = FDiv(TimeWeightedFrom(1, 0), result.v.bond_price)

\* bond_price has returned the duration of a coupon bond of several periods at
\* a positive yield: more than the time of the first payment, less than the
\* maturity.
C13_Witness ==
    /\ BondReturned
    /\ Periods >= 3
    /\ args.coupon_rate > 0
    /\ args.yield_rate > 0
    /\ result.v.duration < FromInt(args.years_to_maturity)
    /\ result.v.duration > FDiv(One, FromInt(args.payments_per_year))

\* C14: at a period yield of exactly 0, bond_price of a bond with a positive
\* face value and a coupon rate >= 0 divides by nothing that is zero: it
\* returns pv_coupons = coupon_payment * periods and
\* bond_price = face_value + coupon_payment * periods.
C14_ZeroYieldPrice ==
    (/\ op = "bond_price"
     /\ Finished
     /\ FEq(PeriodYield, 0)
     /\ args.face_value > 0
     /\ FGe(args.coupon_rate, 0))
    => /\ pc = "returned"
       /\ result.v.pv_coupons = FMul(Coupon, FromInt(Periods))
       /\ result.v.bond_price = FAdd(args.face_value, FMul(Coupon, FromInt(Periods)))

\* A coupon bond of several periods has been priced at a zero yield, above
\* its face value.
C14_Witness ==
    /\ BondReturned
    /\ args.yield_rate = 0
    /\ args.coupon_rate = Lit(5, 2)
    /\ Periods >= 2
    /\ result.v.bond_price > args.face_value

\* The result is Python's None, and no number.
IsNotFound == result.kind = "None"
\* The result is the number x, neither an infinity's NaN nor an exception.
IsNumber(x) == result.kind = "float" /\ result.v = x /\ IsFloat(x) /\ ~IsNaN(x)

\* C15: a call of irr, yield_to_maturity or payback_period that returns
\* without having converged or recovered returns NOT_FOUND (None), never a
\* number; and a result other than NOT_FOUND is the number the calculation
\* produced: the trial rate whose check succeeded, or the payback time, which
\* is at least 1, of a series that recovered its investment.
C15_FailureIsNotFound ==
    /\ (op = "irr" /\ pc = "returned") =>
          IF AbsBelow(npv_val, 1, 6) THEN IsNumber(rate) ELSE IsNotFound
    /\ (op = "yield_to_maturity" /\ pc = "returned") =>
          IF AbsBelow(price_diff, 1, 2) THEN IsNumber(ytm) ELSE IsNotFound
    /\ (op = "payback_period" /\ pc = "returned") =>
          IF i >= 1 /\ FGe(cumulative, 0)
          THEN /\ result.kind = "float"
               /\ IsFinite(result.v)
               /\ result.v >= One
          ELSE IsNotFound

\* yield_to_maturity has returned NOT_FOUND after using up its 100 iterations.
C15_Witness ==
    /\ op = "yield_to_maturity"
    /\ pc = "returned"
    /\ IsNotFound
    /\ it = 100

\* irr has returned NOT_FOUND after using up its 100 iterations.
IrrCapSeen == op = "irr" /\ pc = "returned" /\ IsNotFound /\ it = 100
\* payback_period has returned NOT_FOUND for a series that never recovers.
PaybackNeverSeen ==
    op = "payback_period" /\ pc = "returned" /\ IsNotFound /\ i > Len(args.cashflows) - 1 /\ i >= 2
\* irr has returned the rate 0 of a series whose net present value at 0 is 0.
IrrZeroRateSeen ==
    op = "irr" /\ pc = "returned" /\ IsNumber(0) /\ Len(args.cashflows) >= 2 /\ it > 0

\* acc + the sum over j = k..n-1 of C[j] / (1 + rate)^j, for the arguments of
\* the running call of npv (C[j] is cashflows[j + 1] here).
RECURSIVE DiscountedFrom(_, _)
DiscountedFrom(k, acc) ==
    IF k > Len(args.cashflows) - 1 THEN acc
    ELSE DiscountedFrom(k + 1,
             FAdd(acc, FDiv(args.cashflows[k + 1], FPow(FAdd(One, args.rate), k))))

\* C17: for every rate r # -1, npv(r, C) is the sum over i = 0..n-1 of
\* C[i] / (1 + r)^i, with C[0] undiscounted, so that npv(r, [c]) = c for every
\* r; the one way such a call ends without a value is the OverflowError of a
\* power (1 + r)^i that leaves the floats.
C17_NpvIsDiscountedSum ==
    /\ (op = "npv" /\ Finished /\ args.rate # Lit(-1, 0)) =>
          /\ pc = "returned" \/ raised = OverflowError
          /\ pc = "returned" => result = Float(DiscountedFrom(0, 0))
          /\ pc = "raised" =>
                 IsErr(FPow(FAdd(One, args.rate), Len(args.cashflows) - 1))
    /\ (op = "npv" /\ Finished /\ Len(args.cashflows) = 1) =>
          pc = "returned" /\ result = Float(args.cashflows[1])

\* npv has returned 363.6364 for [-1000, 500, 1100] at a rate of 10 %.
C17_Witness ==
    /\ op = "npv"
    /\ pc = "returned"
    /\ args.rate = Lit(1, 1)
    /\ args.cashflows = <<FromInt(-1000), FromInt(500), FromInt(1100)>>
    /\ result = Float(Lit(3636364, 4))

\* npv of a single cash flow has returned it at a rate of -1.
NpvSingleAtMinusOneSeen ==
    /\ op = "npv"
    /\ pc = "returned"
    /\ args.rate = Lit(-1, 0)
    /\ Len(args.cashflows) = 1
    /\ args.cashflows[1] # 0

\* npv has raised OverflowError at a rate whose powers leave the floats.
NpvOverflowSeen == op = "npv" /\ pc = "raised" /\ raised = OverflowError

\* The market values of the running call of wacc, and their sum.
Equity == args.market_value_equity
Debt == args.market_value_debt
TotalValue == FAdd(Equity, Debt)

\* C18: wacc returns E/(E+D) * cost_of_equity + D/(E+D) * cost_of_debt *
\* (1 - tax_rate) whenever E + D # 0, the two weights summing to 1 (to the
\* rounding of the two divisions); when E + D = 0 it raises ZeroDivisionError
\* and returns no value.
C18_WaccWeighted ==
    (op = "wacc" /\ Finished) =>
        IF TotalValue = 0
        THEN pc = "raised" /\ raised = ZeroDivisionError
        ELSE /\ pc = "returned"
             /\ result = Float(FAdd(FMul(FDiv(Equity, TotalValue), args.cost_of_equity),
                                    FMul(FMul(FDiv(Debt, TotalValue), args.cost_of_debt),
                                         FSub(One, args.tax_rate))))
             /\ FAbs(FSub(FAdd(FDiv(Equity, TotalValue), FDiv(Debt, TotalValue)), One)) <= 1

\* wacc(0.12, 0.06, 0.25, 800, 200) has returned 0.105.
C18_Witness ==
    /\ op = "wacc"
    /\ pc = "returned"
    /\ args = [cost_of_equity |-> Lit(12, 2), cost_of_debt |-> Lit(6, 2),
               tax_rate |-> Lit(25, 2), market_value_equity |-> FromInt(800),
               market_value_debt |-> FromInt(200)]
    /\ result = Float(Lit(105, 3))

\* wacc has raised ZeroDivisionError for market values that cancel.
WaccCancelSeen ==
    /\ op = "wacc"
    /\ pc = "raised"
    /\ raised = ZeroDivisionError
    /\ Equity # 0
    /\ Debt = -Equity

\* C19: every call of compound_annual_growth_rate with beginning_value <= 0
\* ends in a numeric-domain failure and returns no value, whatever
\* ending_value and periods are.
C19_CagrDomainFailure ==
    (/\ op = "compound_annual_growth_rate"
     /\ Finished
     /\ args.beginning_value <= 0)
    => pc = "raised"

\* compound_annual_growth_rate has returned a complex number for a negative
\* beginning_value.
CagrComplexReturned ==
    /\ op = "compound_annual_growth_rate"
    /\ pc = "returned"
    /\ args.beginning_value < 0
    /\ result.kind = "complex"

\* compound_annual_growth_rate has returned a float for a negative
\* beginning_value and several periods.
CagrNegativeFloatReturned ==
    /\ op = "compound_annual_growth_rate"
    /\ pc = "returned"
    /\ args.beginning_value < 0
    /\ args.periods >= 2
    /\ result.kind = "float"

\* compound_annual_growth_rate has raised ZeroDivisionError for a
\* beginning_value of 0.
CagrZeroRaised ==
    /\ op = "compound_annual_growth_rate"
    /\ pc = "raised"
    /\ raised = ZeroDivisionError
    /\ args.beginning_value = 0
    /\ args.periods >= 1

\* irr: the trial rate that follows the trial rate r, and what a search that
\* is over at the trial rate r after n updates ends with. Both are functions
\* of the inputs and of r alone.
IrrNext(C, r) == FSub(r, FDiv(npv(r, C), npv_derivative(r, C)))
IrrEnd(C, r, n) ==
    IF n >= IrrMaxIterations THEN NotFound
    ELSE IF IsErr(npv(r, C)) THEN Failed(npv(r, C))
    ELSE IF IrrConverged(npv(r, C)) THEN Number(r)
    ELSE IF IsErr(npv_derivative(r, C)) THEN Failed(npv_derivative(r, C))
    ELSE IF IrrStalled(npv_derivative(r, C)) THEN NotFound
    ELSE Failed(IrrNext(C, r))

\* yield_to_maturity: the same two functions.
YtmNext(a, y) == FSub(y, FDiv(bond_price_function(a, y), bond_price_derivative(a, y)))
YtmEnd(a, y, n) ==
    IF n > 0 /\ (YtmOutOfRange(y) \/ n >= YtmMaxIterations) THEN NotFound
    ELSE IF IsErr(bond_price_function(a, y)) THEN Failed(bond_price_function(a, y))
    ELSE IF YtmConverged(bond_price_function(a, y)) THEN Number(y)
    ELSE IF IsErr(bond_price_derivative(a, y)) THEN Failed(bond_price_derivative(a, y))
    ELSE IF YtmStalled(bond_price_derivative(a, y)) THEN NotFound
    ELSE Failed(YtmNext(a, y))

DictOf(d) == IF d.exc # 0 THEN Failed(d.exc) ELSE Ended([kind |-> "dict", v |-> d])
PowerOf(g) ==
    IF g.complex THEN Ended([kind |-> "complex", v |-> [modulus |-> g.v, n |-> g.n]])
    ELSE Number(g.v)

\* What the running call ends with, as a function of op and args alone; for
\* the two searches, of args and the trial the search is over at.
Outcome ==
    CASE op = "irr" -> IrrEnd(args.cashflows, rate, it)
      [] op = "yield_to_maturity" -> YtmEnd(args, ytm, it)
      [] op = "payback_period" -> PaybackOf(args.cashflows)
      [] op = "npv" -> Number(npv(args.rate, args.cashflows))
      [] op = "dcf_valuation" ->
            DictOf(dcf_valuation(args.free_cashflows, args.terminal_growth_rate,
                                 args.discount_rate, args.terminal_year))
      [] op = "bond_price" ->
            DictOf(bond_price(args.face_value, args.coupon_rate, args.yield_rate,
                              args.years_to_maturity, args.payments_per_year))
      [] op = "wacc" ->
            Number(wacc(args.cost_of_equity, args.cost_of_debt, args.tax_rate,
                        args.market_value_equity, args.market_value_debt))
      [] op = "capm" -> Number(capm(args.risk_free_rate, args.beta, args.market_return))
      [] op = "compound_annual_growth_rate" ->
            PowerOf(compound_annual_growth_rate(args.beginning_value, args.ending_value,
                                                args.periods))
      [] op = "present_value" ->
            Number(present_value(args.future_value, args.rate, args.periods))
      [] op = "future_value" ->
            Number(future_value(args.present_value, args.rate, args.periods))

\* A search starts at the guess it was given, and what it holds of a trial is
\* the value and the slope at that trial.
TrialHeldFromInputs ==
    /\ pc = "irr_npv" /\ it = 0 => rate = args.guess
    /\ pc \in {"irr_derivative", "irr_update"} => npv_val = npv(rate, args.cashflows)
    /\ pc = "irr_update" => derivative = npv_derivative(rate, args.cashflows)
    /\ pc = "ytm_price" /\ it = 0 => ytm = args.guess
    /\ pc \in {"ytm_derivative", "ytm_update"} => price_diff = bond_price_function(args, ytm)
    /\ pc = "ytm_update" => derivative = bond_price_derivative(args, ytm)

\* A search moves from a trial to the trial the inputs determine, one update
\* at a time, and to no other.
NextTrialFromInputs ==
    /\ op = "irr" /\ op' = "irr" /\ (rate' # rate \/ it' # it) =>
          rate' = IrrNext(args.cashflows, rate) /\ it' = it + 1
    /\ op = "yield_to_maturity" /\ op' = "yield_to_maturity" /\ (ytm' # ytm \/ it' # it) =>
          ytm' = YtmNext(args, ytm) /\ it' = it + 1

\* Between two calls the engine holds nothing: every variable has the value it
\* had before the first call.
HoldsNothing ==
    /\ op = "none"
    /\ args = <<>>
    /\ it = 0 /\ rate = 0 /\ npv_val = 0 /\ derivative = 0
    /\ ytm = 0 /\ price_diff = 0 /\ cumulative = 0 /\ i = 0
    /\ result = [kind |-> "None", v |-> 0]
    /\ raised = 0

\* C16: every function of the engine is deterministic and stateless: a call
\* ends with what its inputs alone determine, whatever calls came before it (so
\* two calls with identical inputs end alike; a search starts at its guess,
\* moves from trial to trial as the inputs determine, and ends as the inputs
\* and its last trial determine); no step of a call changes the call's inputs;
\* and once a call is over the engine holds nothing of it.
OutcomeIsFunction == Finished => <<pc, result, raised>> = Outcome
YtmStepsSeen == op = "yield_to_maturity" /\ Finished /\ it >= 2 /\ result.kind = "float"

\* ------------------------------------------------ C20: domain errors

\* The running call is given an argument outside the function's domain.
DomainError ==
    \/ op = "factorial" /\ (FLt(args.n, 0) \/ ~IsWhole(args.n))
    \/ op = "square_root" /\ FLt(args.x, 0)
    \/ op \in {"log10", "ln"} /\ (FLt(args.x, 0) \/ FEq(args.x, 0))
    \/ op = "log" /\ (\/ FLt(args.x, 0) \/ FEq(args.x, 0)
                      \/ FLt(args.base, 0) \/ FEq(args.base, 0)
                      \/ FEq(args.base, One))
    \/ op \in {"asin", "acos"} /\ (FLt(args.x, -One) \/ FGt(args.x, One))
    \/ op = "nth_root" /\ FEq(args.n, 0)

\* C20: a call of factorial, square_root, log10, ln, log, asin, acos or
\* nth_root with an argument outside the function's domain ends with an error
\* raised and no value returned; the error is ValueError for every finite
\* argument.
C20_DomainErrorsRaise ==
    Finished /\ DomainError =>
        /\ pc = "raised"
        /\ result = None
        /\ raised \in {ValueError, OverflowError}
        /\ raised = OverflowError => op = "factorial" /\ args.n = PosInf

\* factorial(2.5) has raised ValueError.
C20_Witness ==
    /\ op = "factorial" /\ args.n = Lit(25, 1)
    /\ pc = "raised" /\ raised = ValueError
\* Each of the other domain errors has been raised, in either angle mode.
SquareRootRefused == op = "square_root" /\ args.x = Lit(-1, 4) /\ pc = "raised"
LogBaseOneRefused == op = "log" /\ args.x = FromInt(8) /\ args.base = One /\ pc = "raised"
LnZeroRefused == op = "ln" /\ args.x = 0 /\ pc = "raised"
Log10Refused == op = "log10" /\ args.x = FromInt(-1) /\ pc = "raised"
ArcRefusedInRadians ==
    op = "acos" /\ args.x = One + 1 /\ pc = "raised" /\ angle_mode = "rad"
AsinRefused == op = "asin" /\ args.x = FromInt(-2) /\ pc = "raised"
ZerothRootRefused == op = "nth_root" /\ args.n = 0 /\ pc = "raised"
\* And inside the domains values are returned: 5! = 120, the root of 16 is 4,
\* asin(1) is 90 degrees (to the rounding of the conversion), log(8, 2) = 3.
FactorialReturned == op = "factorial" /\ args.n = FromInt(5) /\ result = Float(FromInt(120))
SquareRootReturned == op = "square_root" /\ args.x = FromInt(16) /\ result = Float(FromInt(4))
AsinDegreesReturned ==
    /\ op = "asin" /\ args.x = One /\ angle_mode = "deg" /\ pc = "returned"
    /\ Mag(result.v - FromInt(90)) <= Lit(1, 3)
LogReturned ==
    /\ op = "log" /\ args.x = FromInt(8) /\ args.base = FromInt(2) /\ pc = "returned"
    /\ Mag(result.v - FromInt(3)) <= Lit(1, 3)

\* ----------------------------------------------------- C21: memory

\* What the memory holds after the operations ops[1..k]: the value of the last
\* memory_store (0 after memory_clear, or at the start), with every value
\* added since then added and every value subtracted subtracted, in turn.
RECURSIVE MemoryAfter(_, _)
MemoryAfter(ops, k) ==
    IF k = 0 THEN 0
    ELSE IF ops[k].name = "memory_store" THEN ops[k].value
    ELSE IF ops[k].name = "memory_clear" THEN 0
    ELSE IF ops[k].name = "memory_add" THEN FAdd(MemoryAfter(ops, k - 1), ops[k].value)
    ELSE IF ops[k].name = "memory_subtract" THEN FSub(MemoryAfter(ops, k - 1), ops[k].value)
    ELSE MemoryAfter(ops, k - 1)

\* C21: after any sequence of memory operations the memory holds the value of
\* the last memory_store (0 after memory_clear or construction) plus the values
\* added and minus the values subtracted since; memory_recall returns it and
\* changes nothing.
C21_MemoryIsStorePlusAdds ==
    /\ [](memory = MemoryAfter(memory_ops, Len(memory_ops)))
    /\ [](op = "memory_recall" /\ pc = "returned" => result = Float(memory))
    /\ [][op' = "memory_recall" => memory' = memory /\ angle_mode' = angle_mode]_vars

\* The test's run: store 42, add 8, subtract 10, and memory_recall returns 40.
C21_Witness ==
    /\ Len(memory_ops) = 4
    /\ memory_ops[1] = MemoryOp("memory_store", FromInt(42))
    /\ memory_ops[2] = MemoryOp("memory_add", FromInt(8))
    /\ memory_ops[3] = MemoryOp("memory_subtract", FromInt(10))
    /\ op = "memory_recall" /\ pc = "returned"
    /\ result = Float(FromInt(40))
\* A recall between two additions leaves the sum as it is.
RecallBetweenAdds ==
    /\ Len(memory_ops) = 3
    /\ memory_ops[1].name = "memory_add" /\ memory_ops[2].name = "memory_recall"
    /\ memory_ops[3].name = "memory_add"
    /\ memory = FromInt(16)
\* inf - inf: the memory holds NaN, as the sum in turn does.
MemoryNaNSeen == IsNaN(memory) /\ memory_ops[Len(memory_ops)].name = "memory_subtract"
\* memory_clear after a store: the memory is 0 again.
ClearedAfterStore ==
    /\ Len(memory_ops) = 2
    /\ memory_ops[1] = MemoryOp("memory_store", FromInt(42))
    /\ memory_ops[2].name = "memory_clear" /\ memory = 0

\* ------------------------------------------- C22: calculate_dcf

\* The handler has called dcf_valuation.
DcfCalled == op = "calculate_dcf" /\ pc = "returned" /\ Len(calls) = 1
DcfCallArgs == calls[1].args

\* C22 (as claimed): calculate_dcf calls dcf_valuation only with a discount
\* rate above the terminal growth rate and above 0, and with 2 cash flows or
\* more.
C22_DcfCalledAboveGrowth ==
    DcfCalled =>
        /\ FGt(DcfCallArgs.discount_rate, DcfCallArgs.terminal_growth_rate)
        /\ FGt(DcfCallArgs.discount_rate, 0)
        /\ Len(DcfCallArgs.free_cashflows) >= 2

\* dcf_valuation has been called with a terminal growth rate that is NaN, and
\* the valuation written from it is on the display and in the history.
DcfCalledWithNaNGrowth ==
    /\ DcfCalled
    /\ IsNaN(DcfCallArgs.terminal_growth_rate)
    /\ display.kind = "dcf" /\ IsNaN(display.v.enterprise_value)
    /\ Len(calculation_history) >= 1
\* ... and with a discount rate that is NaN.
DcfCalledWithNaNDiscount == DcfCalled /\ IsNaN(DcfCallArgs.discount_rate)
\* An input is rejected for its discount rate, after a warning for its growth.
DcfRejectedSeen ==
    /\ op = "calculate_dcf" /\ pc = "returned" /\ calls = <<>>
    /\ dialogs = <<InputWarning, InputError>>
    /\ display = Text(<<"0">>) /\ calculation_history = <<>>
\* The rejections and every call with numbers do as claimed: without a call
\* nothing of the display, the history and the last calculation changes, and
\* a call with numbers has the discount rate above the growth rate and 0.
DcfRejectionLeavesAll ==
    [][op' = "calculate_dcf" /\ calls' = <<>> => UNCHANGED <<display, saved>>]_vars
DcfNumbersAboveGrowth ==
    DcfCalled /\ ~IsNaN(DcfCallArgs.terminal_growth_rate) /\ ~IsNaN(DcfCallArgs.discount_rate)
        => FGt(DcfCallArgs.discount_rate, DcfCallArgs.terminal_growth_rate)
           /\ FGt(DcfCallArgs.discount_rate, 0)

\* ------------------------------------------- C23: add_to_history

\* A step that adds an entry to the history.
Adds == op' \in {"add_to_history", "save_calculation_data"}
Shorter(a, b) == IF a < b THEN a ELSE b

\* C23: after every add_to_history, whatever adds, clears and loads came
\* before, the history holds at most 100 entries, the entry just added (the
\* one with the timestamp of the call) is first, the entries after it are the
\* earlier ones in their earlier order, as many as fit, so that only the
\* oldest are dropped, and last_calculation_data is the new entry.
C23_HistoryNewestFirst ==
    [][Adds =>
        /\ Len(calculation_history') = Shorter(Len(calculation_history) + 1, HistoryLimit)
        /\ calculation_history'[1].timestamp = clock
        /\ \A k \in 2..Len(calculation_history') :
              calculation_history'[k] = calculation_history[k - 1]
        /\ last_calculation_data' = calculation_history'[1]]_vars

\* The 101st entry has been added to a history that was empty at first: the
\* first entry added is dropped, the second is now the oldest.
C23_Witness ==
    /\ op = "add_to_history" /\ pc = "returned"
    /\ clock = HistoryLimit + 1
    /\ Len(calculation_history) = HistoryLimit
    /\ calculation_history[1].timestamp = HistoryLimit
    /\ calculation_history[HistoryLimit].timestamp = 1
\* An entry has been added to a loaded history that was longer than the limit.
AddedToLongLoaded ==
    /\ op = "save_calculation_data" /\ pc = "returned"
    /\ Len(calculation_history) = HistoryLimit
    /\ calculation_history[2] = LoadedEntry(1)
    /\ calculation_history[HistoryLimit] = LoadedEntry(HistoryLimit - 1)
\* An entry has been added after a clear: it is the only one.
AddedAfterClear ==
    /\ op = "add_to_history" /\ pc = "returned"
    /\ Len(calculation_history) = 1 /\ clock > 1
\* A history longer than the limit has been loaded and nothing added yet.
LongLoaded == Len(calculation_history) > HistoryLimit


\* ------------------------------------------- C24: calculate_npv

\* irr has returned None to calculate_npv, which goes on from there.
IrrNotFoundInNpv == InsideNpv /\ pc = "returned" /\ result.kind = "None"
LastDialog == dialogs[Len(dialogs)]

\* C24 (as claimed): when irr returns None to calculate_npv, the handler goes on
\* to display the result with 'IRR: Unable to calculate', saves the calculation
\* to the history and shows no 'Calculation Error' dialog, whatever
\* payback_period returns.
C24_NpvCompletesWithoutIrr ==
    [][IrrNotFoundInNpv =>
          /\ display'.kind = "npv"
          /\ display'.v.irr_line = "IRR: Unable to calculate"
          /\ Len(calculation_history') = Len(calculation_history) + 1
          /\ calculation_history'[1].type = "npv"
          /\ CalculationError \notin {dialogs'[k] : k \in 1..Len(dialogs')}]_vars

\* The analysis of -500, 1000, -550 at 10% is over: irr found nothing, payback
\* is 1 year, the result is displayed and saved, and the dialog shown last is
\* the calculation error.
NpvErrorAfterSaved ==
    /\ op = "calculate_npv" /\ pc = "returned" /\ ~InsideNpv
    /\ args.cashflows_text = <<"-500", "1000", "-550">> /\ args.rate_text = "10"
    /\ display.kind = "npv"
    /\ display.v.irr = None /\ display.v.payback = Float(FromInt(1))
    /\ Len(calculation_history) = 1
    /\ LastDialog = CalculationError
\* With no payback either, the analysis completes.
NpvCompleteWithoutBoth ==
    /\ op = "calculate_npv" /\ pc = "returned" /\ ~InsideNpv
    /\ display.kind = "npv"
    /\ display.v.irr = None /\ display.v.payback = None
    /\ LastDialog = Dialog("askquestion", "NPV Analysis Complete")
\* With both, it completes too.
NpvCompleteWithBoth ==
    /\ op = "calculate_npv" /\ pc = "returned" /\ ~InsideNpv
    /\ display.kind = "npv"
    /\ display.v.irr.kind = "float" /\ display.v.payback.kind = "float"
    /\ LastDialog = Dialog("askquestion", "NPV Analysis Complete")
\* What holds of the claim: the display and the history are written whenever
\* irr returns None, and the error dialog comes only with a payback period
\* that is a number other than 0.
NpvShownWithoutIrr ==
    [][IrrNotFoundInNpv =>
          /\ display'.kind = "npv"
          /\ display'.v.irr_line = "IRR: Unable to calculate"
          /\ Len(calculation_history') = Len(calculation_history) + 1
          /\ (dialogs'[Len(dialogs')] = CalculationError <=> Truthy(display'.v.payback))]_vars


\* ------------------------------------------- C25: button_click

IsNumberText(chars) == ~IsErr(FloatOfChars(chars))
ErrorText == Text(<<"E", "r", "r", "o", "r">>)
Clicked == op = "button_click" /\ pc \in {"returned", "raised"}

\* C25 (as claimed): no exception escapes button_click, and a press leaves
\* the display at "Error" or a number.
C25_NoExceptionEscapesClick ==
    Clicked => pc = "returned" /\ (display = ErrorText \/ IsNumberText(display.v))

\* A further operator pressed on the pending division by 0: ValueError leaves
\* button_click, the display and the pending operation as they were.
ChainedDivisionEscapes ==
    /\ Clicked /\ pc = "raised" /\ raised = ValueError
    /\ args.text \in OperatorKeys
    /\ operator = "/" /\ display = Text(<<"0">>) /\ ~should_reset_display
\* An operator pressed while the display shows "Error".
OperatorOnErrorEscapes ==
    /\ Clicked /\ pc = "raised" /\ raised = ValueError
    /\ args.text \in OperatorKeys
    /\ display = ErrorText
\* A digit pressed while the display shows "Error" is appended to it.
DigitOnError == Clicked /\ display = Text(<<"E", "r", "r", "o", "r", "5">>)
\* What holds of the claim: '=' on a division by 0 shows "Error", and every
\* key but the operators returns.
EqualsShowsError ==
    /\ Clicked /\ pc = "returned" /\ args.text = "="
    /\ display = ErrorText /\ operator = "/"
OnlyOperatorsRaise == Clicked /\ pc = "raised" => args.text \in OperatorKeys /\ raised = ValueError


\* ------------------------------------------- C26: evaluate_expression

Evaluated == op = "evaluate_expression" /\ pc \in {"returned", "raised"}
\* The expression is a name of the namespace, alone or applied, and the
\* namespace gives it a value.
AppliesName ==
    /\ NameLen(args.expression) > 0
    /\ ~IsErr(Eval(angle_mode, args.expression))
\* The name the expression begins with, before and after the preparation.
NameApplied == SubSeq(args.expression, 1, NameLen(args.expression))
NamePrepared == SubSeq(_prepare_expression(args.expression), 1, NameLen(args.expression))
IsApplication == NameLen(args.expression) < Len(args.expression)

\* C26 (as claimed): an expression that applies a function or a constant of
\* the namespace to valid arguments makes evaluate_expression return that
\* function's value, and the preparation leaves the function's name as it is.
C26_EvaluatesEveryName ==
    Evaluated /\ AppliesName =>
        /\ pc = "returned"
        /\ result = Float(Eval(angle_mode, args.expression))
        /\ IsApplication => NamePrepared = NameApplied

\* exp(1) has raised ValueError: its name was rewritten to begin with the
\* digits of e.
ExpRaises ==
    /\ Evaluated /\ pc = "raised" /\ raised = ValueError
    /\ args.expression = Application("exp", <<"1">>)
    /\ _prepare_expression(args.expression) = EChars \o <<"x", "p", "(", "1", ")">>
\* The constant e has returned its value, as the digits written for it.
ConstantEReturned ==
    /\ Evaluated /\ pc = "returned" /\ args.expression = <<"e">>
    /\ result = Float(Lit(27183, 4)) /\ last_result = Lit(27183, 4)
\* cos(0) and the division sign.
CosReturned ==
    /\ Evaluated /\ pc = "returned" /\ args.expression = Application("cos", <<"0">>)
    /\ result = Float(One)
DivisionSignReturned ==
    /\ Evaluated /\ pc = "returned" /\ args.expression = <<"1", "U+00F7", "1">>
    /\ result = Float(One)
\* What holds of the claim: every name but exp evaluates to its value, and
\* only the names with the letter e in them are rewritten.
EvaluatesNamesWithoutE ==
    Evaluated /\ AppliesName /\ NameApplied # NameChars("exp") =>
        /\ pc = "returned"
        /\ result = Float(Eval(angle_mode, args.expression))
NamesWithoutEKept ==
    Evaluated /\ AppliesName /\ NameApplied # NameChars("exp") /\ IsApplication =>
        NamePrepared = NameApplied


\* ------------------------------------------- C27: irr

\* C27 (as claimed): for every cash-flow series and every guess, the trial rate
\* -1 included, irr ends by returning a rate or None; no exception leaves it.
C27_IrrEndsByReturning ==
    op = "irr" /\ Finished =>
        /\ pc = "returned"
        /\ result.kind = "None" \/ (result.kind = "float" /\ IsFloat(result.v))

\* The guess -1: npv divides by (1 + rate) ** 1 = 0 at the first evaluation.
IrrGuessMinusOneRaised ==
    /\ op = "irr" /\ pc = "raised" /\ raised = ZeroDivisionError
    /\ args.guess = -One /\ it = 0 /\ rate = -One
\* A Newton update from another guess has made the trial rate -1.
IrrUpdateToMinusOneRaised ==
    /\ op = "irr" /\ pc = "raised" /\ raised = ZeroDivisionError
    /\ args.guess # -One /\ it >= 1 /\ rate = -One
\* What holds of the claim: a call that does not raise returns a rate or None,
\* and ZeroDivisionError is raised only at the trial rate -1.
IrrReturnsRateOrNone ==
    op = "irr" /\ pc = "returned" =>
        result.kind = "None" \/ (result.kind = "float" /\ IsFloat(result.v))
IrrDividesByZeroAtMinusOne ==
    op = "irr" /\ pc = "raised" /\ raised = ZeroDivisionError => rate = -One


\* ------------------------------------------- C28: yield_to_maturity

\* C28 (as claimed): every rate yield_to_maturity returns lies in [-0.5, 1.0],
\* whatever the target price, the bond and the guess.
C28_YtmReturnedInRange ==
    ReturnedFloat("yield_to_maturity") => ~YtmOutOfRange(result.v) /\ ~IsNaN(result.v)

\* The guess 2.0 is returned for the price of the bond at the yield 2.0, and
\* the guess -0.6 for its price at -0.6: the first check passes at the guess.
YtmGuessAboveReturned ==
    /\ ReturnedFloat("yield_to_maturity") /\ args = AboveRangeBond
    /\ result.v = FromInt(2) /\ it = 0
YtmGuessBelowReturned ==
    /\ ReturnedFloat("yield_to_maturity") /\ args = BelowRangeBond
    /\ result.v = Lit(-6, 1) /\ it = 0
\* What holds of the claim: a rate returned after a Newton update is in range,
\* and so is every rate returned from a guess in range.
YtmUpdatedInRange ==
    ReturnedFloat("yield_to_maturity") /\ (it > 0 \/ ~YtmOutOfRange(args.guess))
        => ~YtmOutOfRange(result.v) /\ ~IsNaN(result.v)
\* A rate returned after updates, from the guess 0.05.
YtmUpdatedReturned ==
    /\ ReturnedFloat("yield_to_maturity") /\ it > 0
    /\ ~YtmOutOfRange(result.v)


\* ------------------------------------------- C29: payback_period

\* The flow of the recovery year: cashflows[i] of Python.
RecoveryFlow == args.cashflows[i + 1]

\* C29 (as claimed): a number r returned with the recovery at index i has
\* i - 1 < r <= i, the divisor C[i] is above 0, and r >= 1.
C29_PaybackWithinRecoveryYear ==
    ReturnedFloat("payback_period") =>
        /\ i = FirstRecovery(args.cashflows)
        /\ FLt(FromInt(i - 1), result.v) /\ FGe(FromInt(i), result.v)
        /\ FGt(RecoveryFlow, 0)
        /\ FGe(result.v, One)

\* C29, amended: i - 1 <= r <= i, the divisor C[i] is above 0, and r >= 1;
\* r is above i - 1 unless what was left to recover, divided by C[i], is
\* below the last digit of the float.
C29_PaybackWithinRecoveryYearClosed ==
    ReturnedFloat("payback_period") =>
        /\ i = FirstRecovery(args.cashflows)
        /\ FGe(result.v, FromInt(i - 1)) /\ FGe(FromInt(i), result.v)
        /\ FGt(RecoveryFlow, 0)
        /\ FGe(result.v, One)
        /\ result.v = FromInt(i - 1) =>
              FDiv(FAbs(FSub(cumulative, RecoveryFlow)), RecoveryFlow) = 0

\* A recovery inside the third year: 2 < r < 3.
C29_Witness ==
    /\ ReturnedFloat("payback_period")
    /\ i = 3
    /\ FLt(FromInt(2), result.v) /\ FLt(result.v, FromInt(3))
    /\ FGt(RecoveryFlow, 0)
\* A recovery at the end of its year, r = i, and one in the first year, r = 1.
PaybackAtYearEnd == ReturnedFloat("payback_period") /\ i = 2 /\ result.v = FromInt(2)
PaybackInFirstYear == ReturnedFloat("payback_period") /\ i = 1 /\ result.v = One
\* The recovery of the second year returned as 1: what was left, 0.0001, is
\* lost next to the flow of 10000.
PaybackAtYearStart ==
    /\ ReturnedFloat("payback_period") /\ i = 2 /\ result.v = One
    /\ args.cashflows = <<Lit(-1, 4), 0, FromInt(10000)>>


\* ------------------------------------------- C30: bond_price

\* bond_price has priced a bond of positive face value, one period or more,
\* and a period yield above -100 %.
BondPriced ==
    /\ op = "bond_price" /\ pc = "returned"
    /\ args.face_value > 0
    /\ args.years_to_maturity * args.payments_per_year >= 1
    /\ FGt(FDiv(args.yield_rate, FromInt(args.payments_per_year)), -One)

\* C30 (as claimed): the price is below the face value exactly when the yield
\* is above the coupon rate, above it exactly when the yield is below, and
\* equal exactly when the two rates are equal; so the status written from the
\* price and the face value is the one written from the yield and the coupon.
C30_PriceSideIsYieldSide ==
    BondPriced =>
        /\ FLt(result.v.bond_price, args.face_value) <=> FGt(args.yield_rate, args.coupon_rate)
        /\ FGt(result.v.bond_price, args.face_value) <=> FLt(args.yield_rate, args.coupon_rate)
        /\ FEq(result.v.bond_price, args.face_value) <=> FEq(args.yield_rate, args.coupon_rate)
        /\ BondStatus(result.v.bond_price, args.face_value)
              = YtmStatus(args.yield_rate, args.coupon_rate)

\* A bond whose yield is its coupon rate, 5 %, has a price that is not its
\* face value, and a status that is not Par.
ParBondOffPar ==
    /\ BondPriced
    /\ args.yield_rate = Lit(5, 2) /\ args.coupon_rate = Lit(5, 2)
    /\ result.v.bond_price # args.face_value
    /\ BondStatus(result.v.bond_price, args.face_value) # "Par"
    /\ YtmStatus(args.yield_rate, args.coupon_rate) = "Par"
\* What holds of the claim: with rates that differ the price is on the side
\* claimed, and with equal rates it is the face value within the tolerance of
\* the floats.
PriceSideOfUnequalRates ==
    BondPriced /\ args.yield_rate # args.coupon_rate =>
        /\ FLt(result.v.bond_price, args.face_value) <=> FGt(args.yield_rate, args.coupon_rate)
        /\ FGt(result.v.bond_price, args.face_value) <=> FLt(args.yield_rate, args.coupon_rate)
PriceNearParAtEqualRates ==
    BondPriced /\ args.yield_rate = args.coupon_rate =>
        FAbs(FSub(result.v.bond_price, args.face_value)) <= FMul(args.face_value, Lit(1, 3))
\* A discount bond, a premium bond and a bond at par have been priced.
DiscountBondPriced ==
    /\ BondPriced /\ FGt(args.yield_rate, args.coupon_rate)
    /\ BondStatus(result.v.bond_price, args.face_value) = "Discount"
PremiumBondPriced ==
    /\ BondPriced /\ FLt(args.yield_rate, args.coupon_rate)
    /\ BondStatus(result.v.bond_price, args.face_value) = "Premium"
ParBondPriced ==
    /\ BondPriced /\ args.yield_rate = 0 /\ args.coupon_rate = 0
    /\ BondStatus(result.v.bond_price, args.face_value) = "Par"

====
